---- MODULE Spec2Model ----
(***************************************************************************)
(* A model of the flagfile-ts feature flag engine: the Scanner             *)
(* (src/src/scanner.ts), the Parser (src/unnamed/part_004), the            *)
(* Interpreter (src/src/index.ts) and the Evaluator                        *)
(* (src/src/evaluator.ts).                                                 *)
(*                                                                         *)
(* Strings of the flag language are sequences of one-character strings,    *)
(* so that scanning, escapes, substring tests and date parsing are         *)
(* computed and not assumed.  Names (identifiers, flag names, context      *)
(* keys) are opaque strings.                                               *)
(***************************************************************************)
EXTENDS Integers, Sequences, FiniteSets, TLC

VARIABLES
    \* ---- Interpreter (src/src/index.ts) ----
    context,    \* Interpreter.context: the current evaluation context
    feature,    \* the FeatureFlag node handed to interpretFeatureFlag
    result,     \* outcome of the last interpretFeatureFlag call
    \* ---- Scanner (src/src/scanner.ts) ----
    input,      \* Scanner.input
    position,   \* Scanner.position
    line,       \* Scanner.line
    column,     \* Scanner.column
    tokens,     \* Scanner.tokens
    pc,         \* where scanTokens is: "idle", "scanning", "done", "error"
    scanError,  \* message of the lexical error thrown, "" when none
    \* ---- Parser (src/unnamed/part_004) ----
    ptokens,    \* the token array handed to new Parser(tokens)
    parsed,     \* outcome of the last Parser.parse call
    \* ---- Evaluator (src/src/evaluator.ts) ----
    options,    \* Evaluator.options
    astCache,   \* Evaluator.astCache: the Program kept for a source text
    clock,      \* the time new Date() reads in a NOW() expression
    answer,     \* outcome of the last call of an Evaluator method
    installed   \* the context Evaluator.setContext was last handed, held
                \* while no later call was handed a context of its own

interpVars == <<context, feature, result>>
scanVars == <<input, position, line, column, tokens, pc, scanError>>
parseVars == <<ptokens, parsed>>
evalVars == <<options, astCache, clock, answer, installed>>
vars == <<context, feature, result, input, position, line, column, tokens,
          pc, scanError, ptokens, parsed, options, astCache, clock, answer,
          installed>>

NoPosition == [line |-> 1, column |-> 1, index |-> 0]
NoNode == [type |-> "none"]
NoParseError == [name |-> "", message |-> "", position |-> NoPosition]

\* no Parser.parse call made yet
NoParse ==
    [called |-> FALSE, ok |-> FALSE, program |-> NoNode, current |-> 0,
     err |-> NoParseError]
ParseIdle == ptokens = <<>> /\ parsed = NoParse

-----------------------------------------------------------------------------
(* Bounds of the model. *)

\* greatest number of rules in a complex flag
MaxRules == 3
\* greatest number of phrases a token array is made of
MaxPhrases == 2
\* greatest number of fragments a source text is made of
MaxFrags == 3
\* greatest number of tokens the scanner may hold (caps a scan that makes
\* no progress)
MaxTokens == 14

-----------------------------------------------------------------------------
(* LiteralValue (src/src/types.ts): a tagged value.  Every value carries   *)
(* all fields so that values of different kinds can be compared.           *)

BoolV(b) == [k |-> "bool", b |-> b, n |-> 0, s |-> <<>>, l |-> <<>>]
NumV(n) == [k |-> "num", b |-> FALSE, n |-> n, s |-> <<>>, l |-> <<>>]
StrV(s) == [k |-> "str", b |-> FALSE, n |-> 0, s |-> s, l |-> <<>>]
\* a Date: b says whether the time value is a number (not NaN), n is the
\* time value
DateV(valid, t) == [k |-> "date", b |-> valid, n |-> t, s |-> <<>>, l |-> <<>>]
ListV(l) == [k |-> "list", b |-> FALSE, n |-> 0, s |-> <<>>, l |-> l]

\* JavaScript's typeof
typeOf(v) ==
    CASE v.k = "bool" -> "boolean"
      [] v.k = "num" -> "number"
      [] v.k = "str" -> "string"
      [] OTHER -> "object"

Digits == <<"0", "1", "2", "3", "4", "5", "6", "7", "8", "9">>
DigitSet == {Digits[i] : i \in 1..10}
DigitVal(c) == CHOOSE i \in 0..9 : Digits[i + 1] = c
DigitChar(i) == Digits[i + 1]

\* new Date(text) for a date-only ISO text YYYY-MM-DD; any other text, or a
\* month or day out of range, gives an Invalid Date.  The time value is
\* counted in days on a 12 x 31 grid, which orders and separates calendar
\* days as the millisecond time value does.
newDate(s) ==
    IF /\ Len(s) = 10
       /\ s[5] = "-" /\ s[8] = "-"
       /\ \A i \in {1, 2, 3, 4, 6, 7, 9, 10} : s[i] \in DigitSet
    THEN LET y == DigitVal(s[1]) * 1000 + DigitVal(s[2]) * 100
                    + DigitVal(s[3]) * 10 + DigitVal(s[4])
             m == DigitVal(s[6]) * 10 + DigitVal(s[7])
             d == DigitVal(s[9]) * 10 + DigitVal(s[10])
         IN IF m \in 1..12 /\ d \in 1..31
            THEN DateV(TRUE, (y * 12 + (m - 1)) * 31 + (d - 1))
            ELSE DateV(FALSE, 0)
    ELSE DateV(FALSE, 0)

\* date.toISOString().split('T')[0] of a valid date
isoDay(t) ==
    LET d == (t % 31) + 1
        m == ((t \div 31) % 12) + 1
        y == t \div 372
    IN <<DigitChar(y \div 1000), DigitChar((y \div 100) % 10),
         DigitChar((y \div 10) % 10), DigitChar(y % 10), "-",
         DigitChar(m \div 10), DigitChar(m % 10), "-",
         DigitChar(d \div 10), DigitChar(d % 10)>>

-----------------------------------------------------------------------------
(* Outcomes of an evaluation: a value, or a thrown error.                  *)

NoErr == [name |-> "", msg |-> <<>>]
Ok(v) == [ok |-> TRUE, v |-> v, err |-> NoErr]
Throw(name, msg) ==
    [ok |-> FALSE, v |-> BoolV(FALSE), err |-> [name |-> name, msg |-> msg]]

-----------------------------------------------------------------------------
(* Interpreter (src/src/index.ts).                                         *)

\* isTruthy without the test of an object's keys: every object is truthy
isTruthy_objectTruthy(value) ==
    CASE value.k = "bool" -> value.b
      [] value.k = "num" -> value.n # 0 \/ value.s # <<>>
      [] value.k = "str" -> Len(value.s) > 0
      [] value.k = "list" -> Len(value.l) > 0
      [] value.k = "date" -> value.b
      [] OTHER -> TRUE

\* Interpreter.isTruthy; a number holds its integer part in n and the
\* digits of its fraction in s, an object its properties in l
isTruthy(value) ==
    CASE value.k = "bool" -> value.b
      [] value.k = "num" -> value.n # 0 \/ value.s # <<>>
      [] value.k = "str" -> Len(value.s) > 0
      [] value.k = "list" -> Len(value.l) > 0
      [] value.k = "date" -> value.b
      [] value.k = "object" -> Len(value.l) > 0
      [] OTHER -> TRUE

\* the decimal text of a natural number
RECURSIVE decimal(_)
decimal(i) ==
    IF i < 10 THEN <<DigitChar(i)>>
    ELSE decimal(i \div 10) \o <<DigitChar(i % 10)>>

\* Object.keys: an array's keys are its indices, a plain object's keys come
\* in insertion order
keys(value) ==
    IF value.k = "list" THEN [i \in 1..Len(value.l) |-> decimal(i - 1)]
    ELSE [i \in 1..Len(value.l) |-> value.l[i].key]

\* Array.prototype.includes on a list of keys
hasKey(keyList, key) == \E i \in 1..Len(keyList) : keyList[i] = key

\* object[key], for a key the object has
property(value, key) ==
    IF value.k = "list"
    THEN value.l[CHOOSE i \in 1..Len(value.l) : decimal(i - 1) = key]
    ELSE value.l[CHOOSE i \in 1..Len(value.l) : value.l[i].key = key].value

\* both values are objects to typeof, not null and not dates
bothObjects(left, right) ==
    left.k \in {"list", "object"} /\ right.k \in {"list", "object"}

RECURSIVE areEqual(_, _)
RECURSIVE everyItem(_, _, _)
RECURSIVE everyKey(_, _, _, _)

\* left.every((item, index) => this.areEqual(item, right[index])), from
\* index i - 1 on
everyItem(left, right, i) ==
    IF i > Len(left.l) THEN Ok(BoolV(TRUE))
    ELSE IF ~areEqual(left.l[i], right.l[i]).ok
    THEN areEqual(left.l[i], right.l[i])
    ELSE IF ~areEqual(left.l[i], right.l[i]).v.b THEN Ok(BoolV(FALSE))
    ELSE everyItem(left, right, i + 1)

\* leftKeys.every(key => rightKeys.includes(key) &&
\* this.areEqual(left[key], right[key])), from the i-th key on
everyKey(left, right, leftKeys, i) ==
    IF i > Len(leftKeys) THEN Ok(BoolV(TRUE))
    ELSE IF ~hasKey(keys(right), leftKeys[i]) THEN Ok(BoolV(FALSE))
    ELSE IF ~areEqual(property(left, leftKeys[i]),
                      property(right, leftKeys[i])).ok
    THEN areEqual(property(left, leftKeys[i]), property(right, leftKeys[i]))
    ELSE IF ~areEqual(property(left, leftKeys[i]),
                      property(right, leftKeys[i])).v.b
    THEN Ok(BoolV(FALSE))
    ELSE everyKey(left, right, leftKeys, i + 1)

\* Interpreter.areEqual; the outcome is a boolean value, or the RangeError
\* that toISOString throws on an Invalid Date
areEqual(left, right) ==
    CASE left.k = "date" /\ right.k = "date" ->
            Ok(BoolV(left.b /\ right.b /\ left.n = right.n))
      [] left.k = "date" /\ right.k = "str" ->
            IF left.b THEN Ok(BoolV(isoDay(left.n) = right.s))
            ELSE Throw("RangeError", <<"Invalid time value">>)
      [] left.k = "str" /\ right.k = "date" ->
            IF right.b THEN Ok(BoolV(left.s = isoDay(right.n)))
            ELSE Throw("RangeError", <<"Invalid time value">>)
      [] left.k = "list" /\ right.k = "list" ->
            IF Len(left.l) # Len(right.l) THEN Ok(BoolV(FALSE))
            ELSE everyItem(left, right, 1)
      [] bothObjects(left, right) ->
            IF Len(left.l) # Len(right.l) THEN Ok(BoolV(FALSE))
            ELSE everyKey(left, right, keys(left), 1)
      [] OTHER ->
            \* left === right: the primitives compare by value
            Ok(BoolV(/\ left.k = right.k
                     /\ left.k \in {"bool", "num", "str"}
                     /\ left = right))

\* the order localeCompare gives the characters of the model's strings
Collation ==
    <<"-", "0", "1", "2", "3", "4", "5", "6", "7", "8", "9",
      "A", "B", "L", "N", "S", "U">>
CharRank(c) == CHOOSE i \in 1..Len(Collation) : Collation[i] = c

\* String.prototype.localeCompare: -1, 0 or 1
RECURSIVE localeCompare(_, _)
localeCompare(a, b) ==
    IF Len(a) = 0 /\ Len(b) = 0 THEN 0
    ELSE IF Len(a) = 0 THEN -1
    ELSE IF Len(b) = 0 THEN 1
    ELSE IF CharRank(a[1]) < CharRank(b[1]) THEN -1
    ELSE IF CharRank(a[1]) > CharRank(b[1]) THEN 1
    ELSE localeCompare(Tail(a), Tail(b))

\* a number: nan says the number is NaN
Number(n) == [ok |-> TRUE, nan |-> FALSE, n |-> n, err |-> NoErr]
NaN == [ok |-> TRUE, nan |-> TRUE, n |-> 0, err |-> NoErr]
dateDiff(l, r) == IF l.b /\ r.b THEN Number(l.n - r.n) ELSE NaN

\* Interpreter.compare
compare(left, right) ==
    CASE left.k = "date" /\ right.k = "date" -> dateDiff(left, right)
      [] left.k = "date" /\ right.k = "str" -> dateDiff(left, newDate(right.s))
      [] left.k = "str" /\ right.k = "date" -> dateDiff(newDate(left.s), right)
      [] left.k = "num" /\ right.k = "num" -> Number(left.n - right.n)
      [] left.k = "str" /\ right.k = "str" ->
            Number(localeCompare(left.s, right.s))
      [] OTHER ->
            [ok |-> FALSE, nan |-> FALSE, n |-> 0,
             err |-> [name |-> "InterpreterError",
                      msg |-> <<"Cannot compare values of types ",
                                typeOf(left), " and ", typeOf(right)>>]]

\* String.prototype.includes
includes(hay, needle) ==
    \E i \in 0..(Len(hay) - Len(needle)) :
        SubSeq(hay, i + 1, i + Len(needle)) = needle

\* Interpreter.isIn
isIn(left, right) ==
    CASE right.k = "list" ->
            LET someFrom[i \in 1..(Len(right.l) + 1)] ==
                    IF i > Len(right.l) THEN Ok(BoolV(FALSE))
                    ELSE LET r == areEqual(left, right.l[i])
                         IN IF ~r.ok THEN r
                            ELSE IF r.v.b THEN Ok(BoolV(TRUE))
                            ELSE someFrom[i + 1]
            IN someFrom[1]
      [] left.k = "str" /\ right.k = "str" ->
            Ok(BoolV(includes(right.s, left.s)))
      [] OTHER ->
            Throw("InterpreterError",
                  <<"'in' operator requires array or string on right side, got ",
                    typeOf(right)>>)

\* Interpreter.resolveIdentifier
resolveIdentifier(identifier, ctx) ==
    IF identifier.name \notin DOMAIN ctx
    THEN Throw("InterpreterError", <<"Undefined identifier: ", identifier.name>>)
    ELSE Ok(ctx[identifier.name])

\* an ordering operator applied to the number c that compare returned;
\* every comparison with NaN is false
ordered(operator, c) ==
    IF ~c.ok THEN [ok |-> FALSE, v |-> BoolV(FALSE), err |-> c.err]
    ELSE Ok(BoolV(/\ ~c.nan
                  /\ CASE operator = ">" -> c.n > 0
                       [] operator = "<" -> c.n < 0
                       [] operator = ">=" -> c.n >= 0
                       [] OTHER -> c.n <= 0))

\* !areEqual(left, right)
negated(eq) == IF eq.ok THEN Ok(BoolV(~eq.v.b)) ELSE eq

\* the switch of Interpreter.evaluateBinaryExpression, on the values of
\* the two operands
applyBinary(operator, left, right) ==
    CASE operator \in {"==", "="} -> areEqual(left, right)
      [] operator = "!=" -> negated(areEqual(left, right))
      [] operator \in {">", "<", ">=", "<="} ->
            ordered(operator, compare(left, right))
      [] operator = "and" -> Ok(BoolV(isTruthy(left) /\ isTruthy(right)))
      [] operator = "or" -> Ok(BoolV(isTruthy(left) \/ isTruthy(right)))
      [] operator = "in" -> isIn(left, right)
      [] OTHER -> Throw("InterpreterError",
                        <<"Unknown binary operator: ", operator>>)

\* evaluateBinaryExpression with the && and || of JavaScript: the right
\* operand is not evaluated when the left one decides
evaluateBinaryExpression_shortCircuit(operator, left, right) ==
    IF ~left.ok THEN left
    ELSE IF operator = "and" /\ ~isTruthy(left.v) THEN Ok(BoolV(FALSE))
    ELSE IF operator = "or" /\ isTruthy(left.v) THEN Ok(BoolV(TRUE))
    ELSE IF ~right.ok THEN right
    ELSE applyBinary(operator, left.v, right.v)

\* Interpreter.evaluateBinaryExpression, given what its two operands
\* evaluate to: the left operand is evaluated first, then the right one,
\* then the operator is applied
evaluateBinaryExpression(operator, left, right) ==
    IF ~left.ok THEN left
    ELSE IF ~right.ok THEN right
    ELSE applyBinary(operator, left.v, right.v)

\* Interpreter.evaluateExpression, with evaluateUnaryExpression; ctx is
\* this.context, and new Date() reads the clock
RECURSIVE evaluateExpression(_, _)
evaluateExpression(expression, ctx) ==
    CASE expression.type = "BooleanLiteral" -> Ok(expression.value)
      [] expression.type = "NumberLiteral" -> Ok(expression.value)
      [] expression.type = "StringLiteral" -> Ok(expression.value)
      [] expression.type = "DateLiteral" -> Ok(newDate(expression.value.s))
      [] expression.type = "Identifier" -> resolveIdentifier(expression, ctx)
      [] expression.type = "JsonExpression" -> Ok(expression.value)
      [] expression.type = "NowExpression" -> Ok(DateV(TRUE, clock))
      [] expression.type = "BinaryExpression" ->
            evaluateBinaryExpression(expression.operator,
                                     evaluateExpression(expression.left, ctx),
                                     evaluateExpression(expression.right, ctx))
      [] expression.type = "UnaryExpression" ->
            LET operand == evaluateExpression(expression.operand, ctx)
            IN IF ~operand.ok THEN operand
               ELSE IF expression.operator = "not"
                    THEN Ok(BoolV(~isTruthy(operand.v)))
                    ELSE Throw("InterpreterError",
                               <<"Unknown unary operator: ", expression.operator>>)
      [] expression.type = "ArrayExpression" ->
            LET mapFrom[i \in 1..(Len(expression.elements) + 1)] ==
                    IF i > Len(expression.elements) THEN Ok(ListV(<<>>))
                    ELSE LET e == evaluateExpression(expression.elements[i], ctx)
                             rest == mapFrom[i + 1]
                         IN IF ~e.ok THEN e
                            ELSE IF ~rest.ok THEN rest
                            ELSE Ok(ListV(<<e.v>> \o rest.v.l))
            IN mapFrom[1]
      [] expression.type = "GroupedExpression" ->
            evaluateExpression(expression.expression, ctx)
      [] OTHER -> Throw("InterpreterError",
                        <<"Unknown expression type: ", expression.type>>)

-----------------------------------------------------------------------------
(* Feature flags (src/src/index.ts, lines 121-183).  An interpretation     *)
(* records, besides its outcome, the expressions it evaluated, in order:   *)
(* <<"condition", i>> and <<"value", i>> for rule i, <<"default", 0>>,     *)
(* <<"simple", 0>>, and the context it ran in.                             *)

\* what a turn of the rule loop gives: kind is "return", "continue" or
\* "throw"
Turn(kind, v, err, log) == [kind |-> kind, v |-> v, err |-> err, log |-> log]

\* the try block without the catch around the condition: the error of a
\* condition leaves the loop
tryRule_conditionErrorThrown(conditionResult, value, i) ==
    IF ~conditionResult.ok
    THEN Turn("throw", BoolV(FALSE), conditionResult.err, <<<<"condition", i>>>>)
    ELSE IF ~isTruthy(conditionResult.v)
    THEN Turn("continue", BoolV(FALSE), NoErr, <<<<"condition", i>>>>)
    ELSE IF value.ok
    THEN Turn("return", value.v, NoErr, <<<<"condition", i>>, <<"value", i>>>>)
    ELSE Turn("continue", BoolV(FALSE), NoErr,
              <<<<"condition", i>>, <<"value", i>>>>)

\* the try block and the catch of one turn of the rule loop, given what
\* the condition and the value of rule i evaluate to; the value is only
\* looked at when the condition is truthy
tryRule(conditionResult, value, i) ==
    IF ~conditionResult.ok
    THEN \* caught: continue with the next rule
         Turn("continue", BoolV(FALSE), NoErr, <<<<"condition", i>>>>)
    ELSE IF ~isTruthy(conditionResult.v)
    THEN Turn("continue", BoolV(FALSE), NoErr, <<<<"condition", i>>>>)
    ELSE IF value.ok
    THEN Turn("return", value.v, NoErr, <<<<"condition", i>>, <<"value", i>>>>)
    ELSE \* the value is evaluated inside the try block, so its error is
         \* caught as well
         Turn("continue", BoolV(FALSE), NoErr,
              <<<<"condition", i>>, <<"value", i>>>>)

\* one turn of the rule loop of interpretComplexFeatureFlag
ruleStep(rule, i, ctx) ==
    tryRule(evaluateExpression(rule.condition, ctx),
            evaluateExpression(rule.value, ctx), i)

\* the result of interpretComplexFeatureFlag
Complex(ok, value, matched, err, log) ==
    [ok |-> ok, value |-> value, matched |-> matched, err |-> err, log |-> log]

\* useDefault reporting the default as a match
useDefault_matched(d) == Complex(d.ok, d.v, TRUE, d.err, <<<<"default", 0>>>>)

\* the default's value, with matched = false
useDefault(d) == Complex(d.ok, d.v, FALSE, d.err, <<<<"default", 0>>>>)

\* the end of interpretComplexFeatureFlag, when no rule returned
defaultStep(complex, ctx) ==
    IF complex.hasDefault
    THEN useDefault(evaluateExpression(complex.defaultValue, ctx))
    ELSE Complex(TRUE, BoolV(FALSE), FALSE, NoErr, <<>>)

\* what a turn r of the loop leads to: a return, a throw, or the rest of
\* the loop
afterTurn(r, rest) ==
    IF r.kind = "return" THEN Complex(TRUE, r.v, TRUE, NoErr, r.log)
    ELSE IF r.kind = "throw"
    THEN Complex(FALSE, BoolV(FALSE), FALSE, r.err, r.log)
    ELSE Complex(rest.ok, rest.value, rest.matched, rest.err, r.log \o rest.log)

\* the for loop of interpretComplexFeatureFlag, from rule i on
RECURSIVE ruleLoop(_, _, _)
ruleLoop(complex, i, ctx) ==
    IF i > Len(complex.rules) THEN defaultStep(complex, ctx)
    ELSE afterTurn(ruleStep(complex.rules[i], i, ctx),
                   ruleLoop(complex, i + 1, ctx))

\* Interpreter.interpretComplexFeatureFlag
interpretComplexFeatureFlag(complex, ctx) == ruleLoop(complex, 1, ctx)

\* rethrow without the wrapping: every error is thrown again as it is
rethrow_unwrapped(name, err) == err

\* the catch block of interpretFeatureFlag: an InterpreterError is thrown
\* again as it is, any other error is wrapped in an InterpreterError whose
\* message names the flag
rethrow(name, err) ==
    IF err.name = "InterpreterError" THEN err
    ELSE [name |-> "InterpreterError",
          msg |-> <<"Error interpreting feature flag '", name, "': ">>
                      \o err.msg]

\* the value of a simple flag, with matched = true
useSimple(e) == Complex(e.ok, e.v, TRUE, e.err, <<<<"simple", 0>>>>)

\* the try block of interpretFeatureFlag
interpretBody(body, ctx) ==
    IF body.type = "SimpleFeatureFlag"
    THEN useSimple(evaluateExpression(body.value, ctx))
    ELSE interpretComplexFeatureFlag(body, ctx)

\* the EvaluationResult returned, or the error thrown, for the outcome r of
\* the try block
finish(r, name, ctx) ==
    IF r.ok
    THEN [called |-> TRUE, ok |-> TRUE, name |-> name, value |-> r.value,
          matched |-> r.matched, err |-> NoErr, log |-> r.log, ctx |-> ctx]
    ELSE [called |-> TRUE, ok |-> FALSE, name |-> name,
          value |-> BoolV(FALSE), matched |-> FALSE,
          err |-> rethrow(name, r.err), log |-> r.log, ctx |-> ctx]

\* Interpreter.interpretFeatureFlag
interpretFeatureFlag(f, ctx) == finish(interpretBody(f.body, ctx), f.name, ctx)

\* no call has been made yet
NoResult ==
    [called |-> FALSE, ok |-> FALSE, name |-> "", value |-> BoolV(FALSE),
     matched |-> FALSE, err |-> NoErr, log |-> <<>>, ctx |-> <<>>]

-----------------------------------------------------------------------------
(* The trees and contexts the interpreter is run on.                       *)

\* the value of a literal node is held as a LiteralValue; a DateLiteral
\* holds its ISO text
BooleanLiteral(b) == [type |-> "BooleanLiteral", value |-> BoolV(b)]
NumberLiteral(n) == [type |-> "NumberLiteral", value |-> NumV(n)]
StringLiteral(s) == [type |-> "StringLiteral", value |-> StrV(s)]
DateLiteral(s) == [type |-> "DateLiteral", value |-> StrV(s)]
Identifier(name) == [type |-> "Identifier", name |-> name]
BinaryExpression(l, op, r) ==
    [type |-> "BinaryExpression", left |-> l, operator |-> op, right |-> r]

\* countryCode == "NL": true, false, or an undefined identifier
CondCountry ==
    BinaryExpression(Identifier("countryCode"), "==", StringLiteral(<<"N", "L">>))
\* beta: the truthiness of a binding, or an undefined identifier
CondBeta == Identifier("beta")
\* true > 1: values that cannot be compared
CondIncomparable ==
    BinaryExpression(BooleanLiteral(TRUE), ">", NumberLiteral(1))
\* 1 in 2: invalid operands of 'in'
CondBadIn == BinaryExpression(NumberLiteral(1), "in", NumberLiteral(2))

\* variant: a binding, or an undefined identifier
ValVariant == Identifier("variant")
\* 2024-13-45 == "US": the date is invalid, toISOString throws a RangeError
ValBadDate ==
    BinaryExpression(DateLiteral(<<"2", "0", "2", "4", "-", "1", "3", "-", "4", "5">>),
                     "==", StringLiteral(<<"U", "S">>))

Conditions == {CondCountry, CondBeta, CondIncomparable, CondBadIn}
Values == {ValVariant, ValBadDate}
Rules == {[condition |-> c, value |-> v] : c \in Conditions, v \in Values}

RuleLists == UNION {[1..n -> Rules] : n \in 0..MaxRules}

SimpleFeatureFlag(e) == [type |-> "SimpleFeatureFlag", value |-> e]
\* an absent defaultValue is hasDefault = FALSE
ComplexFeatureFlag(rules, hasDefault, d) ==
    [type |-> "ComplexFeatureFlag", rules |-> rules,
     hasDefault |-> hasDefault, defaultValue |-> d]

Bodies ==
    {SimpleFeatureFlag(e) : e \in Values \cup Conditions}
    \cup {ComplexFeatureFlag(rs, TRUE, d) : rs \in RuleLists, d \in Values}
    \cup {ComplexFeatureFlag(rs, FALSE, BooleanLiteral(FALSE)) : rs \in RuleLists}

Features == {[name |-> "FF-test", body |-> b] : b \in Bodies}

Contexts ==
    { <<>>,
      [countryCode |-> StrV(<<"N", "L">>)],
      [countryCode |-> StrV(<<"U", "S">>), beta |-> BoolV(TRUE),
       variant |-> StrV(<<"B">>)],
      [countryCode |-> StrV(<<"U", "S">>), beta |-> NumV(0)] }

-----------------------------------------------------------------------------
(* The interpreter as a state machine: a tree is handed in, the context is *)
(* set, the flag is interpreted.                                           *)

\* no Evaluator at work: the options are the defaults of its constructor
NoAnswer ==
    [call |-> "none", pending |-> FALSE, source |-> <<>>, names |-> <<>>,
     ctx |-> <<>>, hit |-> FALSE, ok |-> FALSE, value |-> BoolV(FALSE), results |-> <<>>,
     enabled |-> FALSE, err |-> NoErr, context |-> <<>>]
\* new Map()
NoEntries == [source \in {} |-> NoNode]
\* setContext has not been called
NoneInstalled == [held |-> FALSE, used |-> FALSE, ctx |-> <<>>]
EvalIdle ==
    /\ options = [cache |-> TRUE, throwOnError |-> FALSE,
                  defaultValue |-> BoolV(FALSE)]
    /\ astCache = NoEntries
    /\ clock = 0
    /\ answer = NoAnswer
    /\ installed = NoneInstalled

ScanIdle ==
    /\ input = <<>> /\ position = 0 /\ line = 1 /\ column = 1
    /\ tokens = <<>> /\ pc = "idle" /\ scanError = ""

InitInterp ==
    /\ context = <<>>
    /\ feature \in Features
    /\ result = NoResult
    /\ ScanIdle
    /\ ParseIdle
    /\ EvalIdle

\* Interpreter.setContext
setContext(c) ==
    /\ context' = c
    /\ UNCHANGED <<feature, result>>
    /\ UNCHANGED scanVars
    /\ UNCHANGED parseVars
    /\ UNCHANGED evalVars

\* a call of Interpreter.interpretFeatureFlag
InterpretFeatureFlag ==
    /\ result' = interpretFeatureFlag(feature, context)
    /\ UNCHANGED <<context, feature>>
    /\ UNCHANGED scanVars
    /\ UNCHANGED parseVars
    /\ UNCHANGED evalVars

SetContext == \E c \in Contexts : setContext(c)

NextInterp == SetContext \/ InterpretFeatureFlag

SpecInterp == InitInterp /\ [][NextInterp]_vars

-----------------------------------------------------------------------------
(* Claims about the interpreter, checked under SpecInterp.                 *)

Range(seq) == {seq[i] : i \in 1..Len(seq)}
IsComplex == feature.body.type = "ComplexFeatureFlag"
IsSimple == feature.body.type = "SimpleFeatureFlag"
NumRules == Len(feature.body.rules)
\* what the condition and the value of rule i evaluate to in the context of
\* the call
ConditionOf(i) == evaluateExpression(feature.body.rules[i].condition, result.ctx)
ValueOf(i) == evaluateExpression(feature.body.rules[i].value, result.ctx)
DefaultOf == evaluateExpression(feature.body.defaultValue, result.ctx)
Truthy(i) == ConditionOf(i).ok /\ isTruthy(ConditionOf(i).v)
\* rule i is the earliest rule whose condition is truthy
Earliest(i) == Truthy(i) /\ \A j \in 1..(i - 1) : ~Truthy(j)
LastLogged == result.log[Len(result.log)]

\* C1: for a complex flag the conditions are evaluated in declaration
\* order and the result is the value of the earliest rule whose condition
\* is truthy, with matched = true; no condition or value of a later rule,
\* and no default, is evaluated.
C1_FirstMatchWins ==
    (result.called /\ IsComplex) =>
        \A i \in 1..NumRules :
            Earliest(i) =>
                /\ \A p \in 1..Len(result.log) :
                       /\ result.log[p][1] # "default"
                       /\ result.log[p][2] <= i
                /\ \A j \in 1..i : <<"condition", j>> \in Range(result.log)
                /\ result.ok =>
                       /\ result.matched
                       /\ ValueOf(i).ok
                       /\ result.value = ValueOf(i).v

\* C2: when the value of the matched rule (the earliest rule whose
\* condition is truthy) raises an error, the call fails with that error
\* and evaluates nothing after that value.
C2_MatchedValueErrorPropagates ==
    (result.called /\ IsComplex) =>
        \A i \in 1..NumRules :
            (Earliest(i) /\ ~ValueOf(i).ok) =>
                /\ ~result.ok
                /\ LastLogged = <<"value", i>>
                /\ result.err = rethrow(result.name, ValueOf(i).err)

TopLevelEvaluated ==
    /\ result.called
    /\ \/ IsSimple
       \/ IsComplex /\ feature.body.hasDefault /\ LastLogged = <<"default", 0>>
TopLevelOutcome ==
    IF IsSimple THEN evaluateExpression(feature.body.value, result.ctx)
    ELSE DefaultOf

\* C4 as claimed: an error of a simple flag's expression or of a complex
\* flag's default leaves interpretFeatureFlag as an InterpreterError whose
\* message names the flag.
C4_ErrorNamesFlag ==
    (TopLevelEvaluated /\ ~TopLevelOutcome.ok) =>
        /\ ~result.ok
        /\ result.err.name = "InterpreterError"
        /\ result.name \in Range(result.err.msg)

\* C4 as amended: such an error leaves interpretFeatureFlag as an
\* InterpreterError; an error that already is an InterpreterError is
\* thrown unchanged (its message does not name the flag), any other error
\* is wrapped in a message that names the flag.
C4_ErrorPropagates ==
    (TopLevelEvaluated /\ ~TopLevelOutcome.ok) =>
        /\ ~result.ok
        /\ result.err.name = "InterpreterError"
        /\ IF TopLevelOutcome.err.name = "InterpreterError"
           THEN result.err = TopLevelOutcome.err
           ELSE /\ result.name \in Range(result.err.msg)
                /\ \A m \in Range(TopLevelOutcome.err.msg) :
                       m \in Range(result.err.msg)

\* a call whose default raised a RangeError, wrapped with the flag's name
C4_Witness ==
    /\ TopLevelEvaluated /\ IsComplex /\ NumRules > 0
    /\ TopLevelOutcome.err.name = "RangeError"
    /\ ~result.ok
    /\ result.name \in Range(result.err.msg)

-----------------------------------------------------------------------------
(* Scanner (src/src/scanner.ts).  A cursor sc holds position, line and     *)
(* column; the operators read the variable input.                          *)

\* the character '\0' that peek returns at the end of the input
NUL == "NUL"

LowerCase ==
    <<"a", "b", "c", "d", "e", "f", "g", "h", "i", "j", "k", "l", "m",
      "n", "o", "p", "q", "r", "s", "t", "u", "v", "w", "x", "y", "z">>
UpperCase ==
    <<"A", "B", "C", "D", "E", "F", "G", "H", "I", "J", "K", "L", "M",
      "N", "O", "P", "Q", "R", "S", "T", "U", "V", "W", "X", "Y", "Z">>

\* String.prototype.charAt: the empty string outside the input
charAt(p) == IF p >= 0 /\ p < Len(input) THEN input[p + 1] ELSE ""

Cursor(p, l, c) == [position |-> p, line |-> l, column |-> c]

\* Scanner.isAtEnd
isAtEnd(sc) == sc.position >= Len(input)

\* Scanner.advance: the cursor after it; the character it returns is
\* charAt(sc.position)
advance(sc) ==
    Cursor(sc.position + 1, sc.line,
           IF charAt(sc.position) # "\n" THEN sc.column + 1 ELSE sc.column)

\* k calls of advance
RECURSIVE advanceBy(_, _)
advanceBy(sc, k) == IF k = 0 THEN sc ELSE advanceBy(advance(sc), k - 1)

\* Scanner.match: whether it matches, and the cursor after a match
matches(sc, expected) == ~isAtEnd(sc) /\ charAt(sc.position) = expected
afterMatch(sc) == Cursor(sc.position + 1, sc.line, sc.column + 1)

\* Scanner.peekAt, peek and peekNext
peekAt(sc, offset) ==
    IF sc.position + offset >= Len(input) THEN NUL
    ELSE charAt(sc.position + offset)
peek(sc) == IF isAtEnd(sc) THEN NUL ELSE charAt(sc.position)
peekNext(sc) == peekAt(sc, 1)

\* Scanner.isDigit, isAlpha, isAlphaNumeric, isFeatureFlagChar
isDigit(char) == char \in DigitSet
isAlpha(char) ==
    \/ \E i \in 1..26 : char = LowerCase[i] \/ char = UpperCase[i]
    \/ char = "_"
isAlphaNumeric(char) == isAlpha(char) \/ isDigit(char)
isFeatureFlagChar(char) == isAlphaNumeric(char) \/ char = "-" \/ char = "_"

\* String.prototype.toLowerCase
toLowerChar(c) ==
    IF \E i \in 1..26 : c = UpperCase[i]
    THEN LowerCase[CHOOSE i \in 1..26 : c = UpperCase[i]]
    ELSE c
toLowerCase(value) == [i \in 1..Len(value) |-> toLowerChar(value[i])]

\* Scanner.getKeywordType
getKeywordType(value) ==
    CASE toLowerCase(value) = <<"t", "r", "u", "e">> -> "BOOLEAN_TRUE"
      [] toLowerCase(value) = <<"f", "a", "l", "s", "e">> -> "BOOLEAN_FALSE"
      [] toLowerCase(value) = <<"a", "n", "d">> -> "AND"
      [] toLowerCase(value) = <<"o", "r">> -> "OR"
      [] toLowerCase(value) = <<"n", "o", "t">> -> "NOT"
      [] toLowerCase(value) = <<"i", "n">> -> "IN"
      [] OTHER -> "IDENTIFIER"

\* addToken with the start it computes when none is given: the position
\* less the length of the value
addToken_defaultStart(type, value, startLine, startColumn, start, sc) ==
    [type |-> type, value |-> value, line |-> startLine,
     column |-> startColumn, start |-> sc.position - Len(value),
     end |-> sc.position]

\* Scanner.addToken with line, column and start given: end is the
\* position of the cursor
addToken(type, value, startLine, startColumn, start, sc) ==
    [type |-> type, value |-> value, line |-> startLine,
     column |-> startColumn, start |-> start, end |-> sc.position]

\* what a scan function leaves: the cursor and the token it added, or the
\* message of the error it threw
Scanned(sc, token) == [sc |-> sc, toks |-> <<token>>, err |-> ""]
Skipped(sc) == [sc |-> sc, toks |-> <<>>, err |-> ""]
Failed(sc, message) == [sc |-> sc, toks |-> <<>>, err |-> message]

\* a loop "while (!isAtEnd() && <class>(peek())) value += advance()":
\* the cursor and the value after it
inClass(char, class) ==
    CASE class = "digit" -> isDigit(char)
      [] class = "alnum" -> isAlphaNumeric(char)
      [] class = "flag" -> isFeatureFlagChar(char)
      [] OTHER -> char # "\n"
RECURSIVE consume(_, _, _)
consume(sc, value, class) ==
    IF ~isAtEnd(sc) /\ inClass(peek(sc), class)
    THEN consume(advance(sc), Append(value, charAt(sc.position)), class)
    ELSE [sc |-> sc, value |-> value]

\* escapedChar without the translation: the escaped character itself
escapedChar_literal(escaped) == escaped

\* the character an escape sequence stands for
escapedChar(escaped) ==
    CASE escaped = "n" -> "\n"
      [] escaped = "t" -> "\t"
      [] escaped = "r" -> "\r"
      [] OTHER -> escaped

\* value += char, where char may be the empty string
plus(value, char) == IF char = "" THEN value ELSE Append(value, char)

\* the cursor with the line counted, when the character under it is a
\* newline
countLine(sc) ==
    IF peek(sc) = "\n" THEN Cursor(sc.position, sc.line + 1, 1) ELSE sc

\* the while loop of Scanner.scanString
RECURSIVE stringBody(_, _)
stringBody(sc, value) ==
    IF isAtEnd(sc) \/ peek(sc) = "\"" THEN [sc |-> sc, value |-> value]
    ELSE IF peek(sc) = "\\"
    THEN stringBody(advanceBy(sc, 2),
                    plus(value, escapedChar(charAt(sc.position + 1))))
    ELSE stringBody(advance(countLine(sc)), plus(value, charAt(sc.position)))

\* the end of Scanner.scanString, r being what the loop left
stringEnd(r, startLine, startColumn, start) ==
    IF isAtEnd(r.sc) THEN Failed(r.sc, "Unterminated string")
    ELSE Scanned(advance(r.sc),
                 addToken("STRING", r.value, startLine, startColumn, start,
                          advance(r.sc)))

\* Scanner.scanString
scanString(sc, startLine, startColumn, start) ==
    stringEnd(stringBody(sc, <<>>), startLine, startColumn, start)

\* the characters of the input from the cursor on, k of them
ahead(sc, k) == SubSeq(input, sc.position + 1, sc.position + k)

\* the decimal part of Scanner.scanNumber, r being what the digits left
fraction(r) ==
    IF peek(r.sc) = "." /\ isDigit(peekNext(r.sc))
    THEN consume(advance(r.sc), Append(r.value, "."), "digit")
    ELSE r

\* the attempt of Scanner.scanNumber to read a date: sc is the cursor
\* after the '-', saved the cursor before it.  A DATE token when two
\* digits, '-' and two digits follow; otherwise position, line and column
\* are restored and a NUMBER token is added
tryDate(sc, saved, value, startLine, startColumn, start) ==
    IF /\ isDigit(peek(sc)) /\ isDigit(peekNext(sc))
       /\ peekAt(sc, 2) = "-"
       /\ isDigit(peekAt(sc, 3)) /\ isDigit(peekAt(sc, 4))
    THEN Scanned(advanceBy(sc, 5),
                 addToken("DATE", value \o <<"-">> \o ahead(sc, 5), startLine,
                          startColumn, start, advanceBy(sc, 5)))
    ELSE Scanned(saved,
                 addToken("NUMBER", value, startLine, startColumn, start,
                          saved))

\* the end of Scanner.scanNumber, r being the number read
dateOrNumber(r, startLine, startColumn, start) ==
    IF peek(r.sc) = "-" /\ Len(r.value) = 4
    THEN tryDate(advance(r.sc), r.sc, r.value, startLine, startColumn, start)
    ELSE Scanned(r.sc,
                 addToken("NUMBER", r.value, startLine, startColumn, start,
                          r.sc))

\* Scanner.scanNumber
scanNumber(sc, startLine, startColumn, start) ==
    dateOrNumber(fraction(consume(sc, <<>>, "digit")),
                 startLine, startColumn, start)

\* the words json and NOW taken for functions wherever they stand
wordToken_withoutPeek(r, startLine, startColumn, start) ==
    Scanned(r.sc,
            addToken(IF r.value = <<"j", "s", "o", "n">> THEN "JSON_FUNC"
                     ELSE IF r.value = <<"N", "O", "W">> THEN "NOW_FUNC"
                     ELSE getKeywordType(r.value),
                     r.value, startLine, startColumn, start, r.sc))

\* the end of Scanner.scanIdentifierOrFeatureFlag for a word r that is not
\* a flag name
wordToken(r, startLine, startColumn, start) ==
    Scanned(r.sc,
            addToken(IF r.value = <<"j", "s", "o", "n">> /\ peek(r.sc) = "("
                     THEN "JSON_FUNC"
                     ELSE IF r.value = <<"N", "O", "W">> /\ peek(r.sc) = "("
                     THEN "NOW_FUNC"
                     ELSE getKeywordType(r.value),
                     r.value, startLine, startColumn, start, r.sc))

\* the end of Scanner.scanIdentifierOrFeatureFlag for a flag name r
flagToken(r, startLine, startColumn, start) ==
    Scanned(r.sc,
            addToken("FEATURE_FLAG_NAME", r.value, startLine, startColumn,
                     start, r.sc))

\* Scanner.scanIdentifierOrFeatureFlag
scanIdentifierOrFeatureFlag(sc, startLine, startColumn, start) ==
    IF /\ peek(sc) = "F" /\ peekNext(sc) = "F"
       /\ (peekAt(sc, 2) = "-" \/ peekAt(sc, 2) = "_")
    THEN flagToken(consume(advanceBy(sc, 3), ahead(sc, 3), "flag"),
                   startLine, startColumn, start)
    ELSE wordToken(consume(sc, <<>>, "alnum"),
                   startLine, startColumn, start)

\* the end of Scanner.scanLineComment and Scanner.scanBlockComment
commentToken(r, startLine, startColumn, start) ==
    Scanned(r.sc,
            addToken("COMMENT", r.value, startLine, startColumn, start, r.sc))

\* Scanner.scanLineComment
scanLineComment(sc, startLine, startColumn, start) ==
    commentToken(consume(sc, <<"/", "/">>, "line"),
                 startLine, startColumn, start)

\* the while loop of Scanner.scanBlockComment
RECURSIVE blockBody(_, _)
blockBody(sc, value) ==
    IF isAtEnd(sc) THEN [sc |-> sc, value |-> value]
    ELSE IF peek(sc) = "*" /\ peekNext(sc) = "/"
    THEN [sc |-> advanceBy(sc, 2), value |-> value \o <<"*", "/">>]
    ELSE blockBody(advance(countLine(sc)), Append(value, charAt(sc.position)))

\* String.prototype.endsWith
endsWith(value, suffix) ==
    /\ Len(value) >= Len(suffix)
    /\ SubSeq(value, Len(value) - Len(suffix) + 1, Len(value)) = suffix

\* the end of Scanner.scanBlockComment, r being what the loop left
blockEnd(r, startLine, startColumn, start) ==
    IF ~endsWith(r.value, <<"*", "/">>)
    THEN Failed(r.sc, "Unterminated block comment")
    ELSE commentToken(r, startLine, startColumn, start)

\* Scanner.scanBlockComment
scanBlockComment(sc, startLine, startColumn, start) ==
    blockEnd(blockBody(sc, <<"/", "*">>), startLine, startColumn, start)

\* a token of one character, or of two when the second one matches
oneOrTwo(sc, second, both, one, char, startLine, startColumn, start) ==
    IF matches(sc, second)
    THEN Scanned(afterMatch(sc),
                 addToken(both, <<char, second>>, startLine, startColumn,
                          start, afterMatch(sc)))
    ELSE Scanned(sc, addToken(one, <<char>>, startLine, startColumn, start, sc))

SingleChars == <<"{", "}", "(", ")", "[", "]", ",", ":">>
SingleTypes ==
    <<"LEFT_BRACE", "RIGHT_BRACE", "LEFT_PAREN", "RIGHT_PAREN",
      "LEFT_BRACKET", "RIGHT_BRACKET", "COMMA", "COLON">>

\* the switch of Scanner.scanToken: char is the character read at start,
\* sc the cursor after it
switch(char, sc, startLine, startColumn, start) ==
    CASE char \in {" ", "\r", "\t"} -> Skipped(sc)
      [] char = "\n" ->
            Scanned(Cursor(sc.position, sc.line + 1, 1),
                    addToken("NEWLINE", <<char>>, startLine, startColumn,
                             start, sc))
      [] \E i \in 1..8 : char = SingleChars[i] ->
            Scanned(sc,
                    addToken(SingleTypes[CHOOSE i \in 1..8 : char = SingleChars[i]],
                             <<char>>, startLine, startColumn, start, sc))
      [] char = "-" ->
            IF matches(sc, ">")
            THEN Scanned(afterMatch(sc),
                         addToken("ARROW", <<"-", ">">>, startLine,
                                  startColumn, start, afterMatch(sc)))
            ELSE \* position-- and column--
                 scanIdentifierOrFeatureFlag(
                     Cursor(sc.position - 1, sc.line, sc.column - 1),
                     startLine, startColumn, start)
      [] char = "=" ->
            oneOrTwo(sc, "=", "EQUALS", "ASSIGN", char,
                     startLine, startColumn, start)
      [] char = "!" ->
            IF matches(sc, "=")
            THEN Scanned(afterMatch(sc),
                         addToken("NOT_EQUALS", <<"!", "=">>, startLine,
                                  startColumn, start, afterMatch(sc)))
            ELSE Failed(sc, "Unexpected character")
      [] char = ">" ->
            oneOrTwo(sc, "=", "GREATER_EQUAL", "GREATER_THAN", char,
                     startLine, startColumn, start)
      [] char = "<" ->
            oneOrTwo(sc, "=", "LESS_EQUAL", "LESS_THAN", char,
                     startLine, startColumn, start)
      [] char = "/" ->
            IF matches(sc, "/")
            THEN scanLineComment(afterMatch(sc), startLine, startColumn, start)
            ELSE IF matches(sc, "*")
            THEN scanBlockComment(afterMatch(sc), startLine, startColumn, start)
            ELSE Failed(sc, "Unexpected character")
      [] char = "\"" -> scanString(sc, startLine, startColumn, start)
      [] OTHER ->
            IF isDigit(char)
            THEN scanNumber(Cursor(sc.position - 1, sc.line, sc.column - 1),
                            startLine, startColumn, start)
            ELSE IF isAlpha(char)
            THEN scanIdentifierOrFeatureFlag(
                     Cursor(sc.position - 1, sc.line, sc.column - 1),
                     startLine, startColumn, start)
            ELSE Failed(sc, "Unexpected character")

\* Scanner.scanToken, from the cursor sc
scanToken(sc) ==
    switch(charAt(sc.position), advance(sc), sc.line, sc.column, sc.position)

-----------------------------------------------------------------------------
(* The scanner as a state machine: scanTokens starts, calls scanToken      *)
(* until the end of the input, and adds the EOF token.                     *)

\* the pieces the source texts are made of
Fragments ==
    << <<"n">>, <<" ">>, <<"\n">>, <<"-">>, <<">">>,
       <<"2", "0", "2", "4">>, <<"-", "0", "1">>, <<"1", ".", "2", "5">>,
       <<"/">>, <<"*">>, <<"\"">>, <<"\\">>, <<"\\", "n">>, <<"@">>,
       <<"F", "F", "-">> >>

RECURSIVE Flatten(_)
Flatten(pieces) ==
    IF pieces = <<>> THEN <<>> ELSE Head(pieces) \o Flatten(Tail(pieces))

\* the texts made of at most MaxFrags pieces
FragmentLists == UNION {[1..n -> 1..Len(Fragments)] : n \in 0..MaxFrags}
\* the words json and NOW, and the same letters in the other case
JsonWord == <<"j", "s", "o", "n">>
NowWord == <<"N", "O", "W">>
CallWords == {JsonWord, NowWord, <<"J", "S", "O", "N">>, <<"n", "o", "w">>}
\* what stands before and after such a word: nothing, a parenthesis, the
\* head of a flag; nothing, a parenthesis, a blank or a line end and a
\* parenthesis, one more letter
WordHeads == {<<>>, <<"(">>, <<"F", "F", "-", "a", " ", "-", ">", " ">>}
WordTails ==
    {<<>>, <<"(">>, <<"(", ")">>, <<")">>, <<" ", "(">>, <<"\n", "(">>,
     <<"n", "(">>}
WordSources ==
    {h \o w \o t : h \in WordHeads, w \in CallWords, t \in WordTails}

\* a string that holds a line end after a backslash, and a block comment
\* that holds a line end, each with a word after it
LineSources ==
    { <<"\"", "\\", "\n", "\"", " ", "n">>,
      <<"/", "*", "\n", "*", "/", " ", "n">> }

Sources ==
    {Flatten([i \in 1..Len(f) |-> Fragments[f[i]]]) : f \in FragmentLists}
    \cup WordSources \cup LineSources

InterpIdle ==
    /\ context = <<>>
    /\ feature = [name |-> "FF-test",
                  body |-> SimpleFeatureFlag(BooleanLiteral(FALSE))]
    /\ result = NoResult

\* new Scanner(input)
InitScan ==
    /\ input \in Sources
    /\ position = 0 /\ line = 1 /\ column = 1
    /\ tokens = <<>>
    /\ pc = "idle" /\ scanError = ""
    /\ InterpIdle
    /\ ParseIdle
    /\ EvalIdle

\* the head of Scanner.scanTokens
ScanTokensStart ==
    /\ pc \in {"idle", "done", "error"}
    /\ tokens' = <<>>
    /\ position' = 0 /\ line' = 1 /\ column' = 1
    /\ pc' = "scanning" /\ scanError' = ""
    /\ UNCHANGED input
    /\ UNCHANGED interpVars
    /\ UNCHANGED parseVars
    /\ UNCHANGED evalVars

\* the state after the call r of scanToken
afterScanToken(r) ==
    IF r.err # ""
    THEN /\ pc' = "error" /\ scanError' = r.err
         /\ UNCHANGED <<position, line, column, tokens>>
    ELSE /\ position' = r.sc.position
         /\ line' = r.sc.line
         /\ column' = r.sc.column
         /\ tokens' = tokens \o r.toks
         /\ UNCHANGED <<pc, scanError>>

\* one turn of the loop of Scanner.scanTokens: a call of scanToken
ScanToken ==
    /\ pc = "scanning"
    /\ ~isAtEnd(Cursor(position, line, column))
    /\ Len(tokens) < MaxTokens
    /\ afterScanToken(scanToken(Cursor(position, line, column)))
    /\ UNCHANGED input
    /\ UNCHANGED interpVars
    /\ UNCHANGED parseVars
    /\ UNCHANGED evalVars

\* the end of Scanner.scanTokens: the EOF token, and the return
ScanTokensEnd ==
    /\ pc = "scanning"
    /\ isAtEnd(Cursor(position, line, column))
    /\ tokens' = Append(tokens,
                        [type |-> "EOF", value |-> <<>>, line |-> line,
                         column |-> column, start |-> position,
                         end |-> position])
    /\ pc' = "done"
    /\ UNCHANGED <<input, position, line, column, scanError>>
    /\ UNCHANGED interpVars
    /\ UNCHANGED parseVars
    /\ UNCHANGED evalVars

NextScan == ScanTokensStart \/ ScanToken \/ ScanTokensEnd

SpecScan == InitScan /\ [][NextScan]_vars

-----------------------------------------------------------------------------
(* Claims about the scanner, checked under SpecScan.                       *)

\* the text of the input in the span of token t
SpanText(t) == SubSeq(input, t.start + 1, t.end)
\* the tokens whose span holds the character at offset p
Covering(p) == {k \in 1..Len(tokens) : tokens[k].start <= p /\ p < tokens[k].end}
Blank == {" ", "\t", "\r"}

\* C6: scanTokens terminates: every call of scanToken either consumes at
\* least one character or throws, and a '-' that is not followed by '>'
\* makes it throw.
C6_ScanTerminates ==
    [][/\ (pc = "scanning" /\ pc' = "scanning") => position' > position
       /\ (/\ pc = "scanning" /\ pc' = "scanning"
           /\ charAt(position) = "-") => charAt(position + 1) = ">"]_vars

\* C7: a COMMENT token of a block comment is only added when the
\* characters '*/' stand after the opening '/*'; without them the scan
\* fails.
C7_BlockCommentClosed ==
    \A k \in 1..Len(tokens) :
        (/\ tokens[k].type = "COMMENT"
         /\ charAt(tokens[k].start + 1) = "*") =>
            \E p \in (tokens[k].start + 2)..(tokens[k].end - 2) :
                charAt(p) = "*" /\ charAt(p + 1) = "/"

\* C8: in a token list that scanTokens returns the spans are in increasing
\* order and disjoint, and every character of the source is in exactly one
\* span, or is a space, a tab or a carriage return in no span.
C8_SpansPartitionSource ==
    pc = "done" =>
        /\ \A k \in 1..(Len(tokens) - 1) :
               /\ tokens[k].start < tokens[k].end
               /\ tokens[k].end <= tokens[k + 1].start
        /\ tokens[Len(tokens)].start = tokens[Len(tokens)].end
        /\ tokens[Len(tokens)].end = Len(input)
        /\ \A p \in 0..(Len(input) - 1) :
               \/ Cardinality(Covering(p)) = 1
               \/ Covering(p) = {} /\ charAt(p) \in Blank

\* a returned list with a token of several characters, a blank after it
\* in no span, and a second token before the end-of-file token
C8_Witness ==
    /\ pc = "done"
    /\ Len(tokens) = 3
    /\ tokens[1].end - tokens[1].start > 1
    /\ tokens[2].start > tokens[1].end
    /\ \E p \in 0..(Len(input) - 1) : Covering(p) = {} /\ charAt(p) = " "

RECURSIVE ConcatValues(_)
ConcatValues(toks) ==
    IF toks = <<>> THEN <<>> ELSE Head(toks).value \o ConcatValues(Tail(toks))

\* C9 as claimed: the values of the returned tokens, concatenated, are the
\* source.
C9_ConcatReproducesSource == pc = "done" => ConcatValues(tokens) = input

\* the text of a string literal between its quotes, with the escape
\* sequences replaced by what they stand for
EscapeMeaning(c) ==
    CASE c = "n" -> "\n" [] c = "t" -> "\t" [] c = "r" -> "\r" [] OTHER -> c
RECURSIVE Unescaped(_)
Unescaped(text) ==
    IF text = <<>> THEN <<>>
    ELSE IF text[1] = "\\" /\ Len(text) >= 2
    THEN <<EscapeMeaning(text[2])>> \o Unescaped(SubSeq(text, 3, Len(text)))
    ELSE <<text[1]>> \o Unescaped(Tail(text))

\* C9 as amended: the value of every returned token other than a string is
\* the text of its span; the span of a string token is the literal with
\* its quotes and its value is the text between the quotes with the
\* escapes translated; blanks are in no token.  So the values concatenate
\* to the source when it has no string literal and no blank between
\* tokens.
C9_ValuesAreSpanTexts ==
    pc = "done" =>
        /\ \A k \in 1..Len(tokens) :
               IF tokens[k].type = "STRING"
               THEN /\ tokens[k].end - tokens[k].start >= 2
                    /\ charAt(tokens[k].start) = "\""
                    /\ charAt(tokens[k].end - 1) = "\""
                    /\ tokens[k].value =
                         Unescaped(SubSeq(input, tokens[k].start + 2,
                                          tokens[k].end - 1))
               ELSE tokens[k].value = SpanText(tokens[k])
        /\ (/\ \A k \in 1..Len(tokens) : tokens[k].type # "STRING"
            /\ \A p \in 0..(Len(input) - 1) : Covering(p) # {})
               => ConcatValues(tokens) = input

\* a returned list with a string token whose value is a translated escape
C9_Witness ==
    /\ pc = "done"
    /\ tokens[1].type = "STRING"
    /\ tokens[1].value = <<"\n">>
    /\ tokens[1].end - tokens[1].start = 4

IsDateText(v) ==
    /\ Len(v) = 10
    /\ v[5] = "-" /\ v[8] = "-"
    /\ \A i \in {1, 2, 3, 4, 6, 7, 9, 10} : v[i] \in DigitSet

\* C10: the text of every DATE token has the shape DDDD-DD-DD, and a
\* NUMBER token holds the digits alone: its value is the text of its span,
\* digits and a decimal point, and its span ends where the number ends.
C10_DateShape ==
    \A k \in 1..Len(tokens) :
        /\ tokens[k].type = "DATE" => IsDateText(tokens[k].value)
        /\ tokens[k].type = "NUMBER" =>
               /\ tokens[k].value = SpanText(tokens[k])
               /\ \A i \in 1..Len(tokens[k].value) :
                      tokens[k].value[i] \in DigitSet \cup {"."}

-----------------------------------------------------------------------------
(* Parser (src/unnamed/part_004): a recursive descent over the token       *)
(* array ts, current being the index of the next token, counted from 0.    *)
(* Every parse function gives an outcome: the node built and the value of  *)
(* current after it, or the error thrown.                                  *)

\* the characters of a token value as one name: an operator, an identifier
\* or a flag name
RECURSIVE text(_)
text(value) == IF value = <<>> THEN "" ELSE value[1] \o text(Tail(value))

\* the tokens new Parser(tokens) keeps
RECURSIVE filterTokens(_)
filterTokens(ts) ==
    IF ts = <<>> THEN <<>>
    ELSE IF Head(ts).type \in {"COMMENT", "NEWLINE", "WHITESPACE"}
    THEN filterTokens(Tail(ts))
    ELSE <<Head(ts)>> \o filterTokens(Tail(ts))

\* Parser.isAtEnd
parserIsAtEnd(ts, current) ==
    current >= Len(ts) \/ ts[current + 1].type = "EOF"

\* Parser.check
check(ts, current, types) ==
    ~parserIsAtEnd(ts, current) /\ ts[current + 1].type \in types

\* Parser.tokenToPosition
tokenToPosition(token) ==
    [line |-> token.line, column |-> token.column, index |-> token.start]

\* Parser.getPosition
getPosition(ts, current) ==
    IF current > 0 /\ current <= Len(ts) THEN tokenToPosition(ts[current])
    ELSE IF current = 0 /\ Len(ts) > 0 THEN tokenToPosition(ts[1])
    ELSE NoPosition

\* a node built, current standing after it
Built(node, current) ==
    [ok |-> TRUE, node |-> node, current |-> current, err |-> NoParseError]

\* Parser.error: a ParseError at the token current stands on
error(ts, current, message) ==
    [ok |-> FALSE, node |-> NoNode, current |-> current,
     err |-> [name |-> "ParseError", message |-> message,
              position |-> IF current < Len(ts)
                           THEN tokenToPosition(ts[current + 1])
                           ELSE NoPosition]]

\* Parser.consume: the token is taken, or the error is thrown
parserConsume(ts, current, type, message) ==
    IF check(ts, current, {type}) THEN Built(NoNode, current + 1)
    ELSE error(ts, current, message)

\* parseFloat of the text of a NUMBER token: the integer part is n, the
\* digits after the decimal point, without trailing zeros, are s
RECURSIVE digitsValue(_, _)
digitsValue(value, acc) ==
    IF value = <<>> \/ Head(value) \notin DigitSet THEN acc
    ELSE digitsValue(Tail(value), acc * 10 + DigitVal(Head(value)))

RECURSIVE afterPoint(_)
afterPoint(value) ==
    IF value = <<>> THEN <<>>
    ELSE IF Head(value) = "." THEN Tail(value)
    ELSE afterPoint(Tail(value))

RECURSIVE stripZeros(_)
stripZeros(digits) ==
    IF digits # <<>> /\ digits[Len(digits)] = "0"
    THEN stripZeros(SubSeq(digits, 1, Len(digits) - 1))
    ELSE digits

parseFloat(value) ==
    [k |-> "num", b |-> FALSE, n |-> digitsValue(value, 0),
     s |-> stripZeros(afterPoint(value)), l |-> <<>>]

\* the operator tokens of each level of precedence
OrTypes == {"OR"}
AndTypes == {"AND"}
EqualityTypes == {"EQUALS", "NOT_EQUALS", "ASSIGN"}
ComparisonTypes ==
    {"GREATER_THAN", "GREATER_EQUAL", "LESS_THAN", "LESS_EQUAL", "IN"}

\* isOperatorToken with '==' left out of the list
isOperatorToken_withoutEquals(type) ==
    type \in {"AND", "OR", "NOT", "NOT_EQUALS", "ASSIGN", "GREATER_THAN",
              "LESS_THAN", "GREATER_EQUAL", "LESS_EQUAL", "IN"}

\* Parser.isOperatorToken
isOperatorToken(type) ==
    type \in {"AND", "OR", "NOT", "EQUALS", "NOT_EQUALS", "ASSIGN",
              "GREATER_THAN", "LESS_THAN", "GREATER_EQUAL", "LESS_EQUAL",
              "IN"}

\* the loop of Parser.checkArrayLiteral from the token at current + lookahead
RECURSIVE arrayScan(_, _, _, _, _)
arrayScan(ts, at, parenCount, hasComma, hasOperators) ==
    IF ~(at < Len(ts) /\ parenCount > 0) THEN hasComma /\ ~hasOperators
    ELSE IF ts[at + 1].type = "LEFT_PAREN"
    THEN arrayScan(ts, at + 1, parenCount + 1, hasComma, hasOperators)
    ELSE IF ts[at + 1].type = "RIGHT_PAREN"
    THEN IF parenCount - 1 = 0 THEN hasComma /\ ~hasOperators
         ELSE arrayScan(ts, at + 1, parenCount - 1, hasComma, hasOperators)
    ELSE IF parenCount = 1
    THEN arrayScan(ts, at + 1, parenCount,
                   hasComma \/ ts[at + 1].type = "COMMA",
                   hasOperators \/ (/\ ts[at + 1].type # "COMMA"
                                    /\ isOperatorToken(ts[at + 1].type)))
    ELSE arrayScan(ts, at + 1, parenCount, hasComma, hasOperators)

\* Parser.checkArrayLiteral, current standing after the '('
checkArrayLiteral(ts, current) == arrayScan(ts, current, 1, FALSE, FALSE)

\* the nodes the parser builds carry the position getPosition gives when
\* they are built
Positioned(node, ts, current) ==
    [f \in DOMAIN node \cup {"position"} |->
        IF f = "position" THEN getPosition(ts, current) ELSE node[f]]

RECURSIVE parseOr(_, _)
RECURSIVE parseAnd(_, _)
RECURSIVE parseEquality(_, _)
RECURSIVE parseComparison(_, _)
RECURSIVE parseUnary(_, _)
RECURSIVE parsePrimary(_, _)
RECURSIVE parseArrayExpression(_, _)
RECURSIVE parseJsonExpression(_, _)
RECURSIVE orLoop(_, _)
RECURSIVE andLoop(_, _)
RECURSIVE equalityLoop(_, _)
RECURSIVE comparisonLoop(_, _)
RECURSIVE elementsLoop(_, _, _)

\* Parser.parseExpression
parseExpression(ts, current) == parseOr(ts, current)

\* the BinaryExpression of a turn of a loop, or the error of its right side
binary(ts, expr, operator, right) ==
    IF ~right.ok THEN right
    ELSE Built(Positioned(BinaryExpression(expr.node, operator, right.node),
                          ts, right.current),
               right.current)

\* the operator of a turn: the value of the token just matched
previousValue(ts, current) == text(ts[current].value)

\* Parser.parseOr
orLoop(ts, expr) ==
    IF ~expr.ok \/ ~check(ts, expr.current, OrTypes) THEN expr
    ELSE orLoop(ts, binary(ts, expr, previousValue(ts, expr.current + 1),
                           parseAnd(ts, expr.current + 1)))
parseOr(ts, current) == orLoop(ts, parseAnd(ts, current))

\* the loop of parseAnd taking all that follows as the right side
andLoop_rightAssociative(ts, expr) ==
    IF ~expr.ok \/ ~check(ts, expr.current, AndTypes) THEN expr
    ELSE binary(ts, expr, previousValue(ts, expr.current + 1),
                parseAnd(ts, expr.current + 1))

\* Parser.parseAnd
andLoop(ts, expr) ==
    IF ~expr.ok \/ ~check(ts, expr.current, AndTypes) THEN expr
    ELSE andLoop(ts, binary(ts, expr, previousValue(ts, expr.current + 1),
                            parseEquality(ts, expr.current + 1)))
parseAnd(ts, current) == andLoop(ts, parseEquality(ts, current))

\* Parser.parseEquality
equalityLoop(ts, expr) ==
    IF ~expr.ok \/ ~check(ts, expr.current, EqualityTypes) THEN expr
    ELSE equalityLoop(ts, binary(ts, expr,
                                 previousValue(ts, expr.current + 1),
                                 parseComparison(ts, expr.current + 1)))
parseEquality(ts, current) == equalityLoop(ts, parseComparison(ts, current))

\* Parser.parseComparison
comparisonLoop(ts, expr) ==
    IF ~expr.ok \/ ~check(ts, expr.current, ComparisonTypes) THEN expr
    ELSE comparisonLoop(ts, binary(ts, expr,
                                   previousValue(ts, expr.current + 1),
                                   parseUnary(ts, expr.current + 1)))
parseComparison(ts, current) == comparisonLoop(ts, parseUnary(ts, current))

\* the UnaryExpression of an operand, or the error of the operand
unary(ts, operator, operand) ==
    IF ~operand.ok THEN operand
    ELSE Built(Positioned([type |-> "UnaryExpression", operator |-> operator,
                           operand |-> operand.node], ts, operand.current),
               operand.current)

\* Parser.parseUnary
parseUnary(ts, current) ==
    IF check(ts, current, {"NOT"})
    THEN unary(ts, previousValue(ts, current + 1),
               parseUnary(ts, current + 1))
    ELSE parsePrimary(ts, current)

\* a node of one token
leaf(ts, current, node) ==
    Built(Positioned(node, ts, current + 1), current + 1)

\* NOW ( ) after the NOW token
nowCall(ts, open, close) ==
    IF ~open.ok THEN open
    ELSE IF ~close.ok THEN close
    ELSE Built(Positioned([type |-> "NowExpression"], ts, close.current),
               close.current)

\* the end of a grouped expression: the ')' and the node
grouped(ts, expr, close) ==
    IF ~expr.ok THEN expr
    ELSE IF ~close.ok THEN close
    ELSE Built(Positioned([type |-> "GroupedExpression",
                           expression |-> expr.node], ts, close.current),
               close.current)

group(ts, expr) ==
    grouped(ts, expr,
            parserConsume(ts, expr.current, "RIGHT_PAREN",
                          "Expected \")\" after expression"))

\* Parser.parsePrimary
parsePrimary(ts, current) ==
    IF check(ts, current, {"BOOLEAN_TRUE"})
    THEN leaf(ts, current, BooleanLiteral(TRUE))
    ELSE IF check(ts, current, {"BOOLEAN_FALSE"})
    THEN leaf(ts, current, BooleanLiteral(FALSE))
    ELSE IF check(ts, current, {"NUMBER"})
    THEN leaf(ts, current, [type |-> "NumberLiteral",
                            value |-> parseFloat(ts[current + 1].value)])
    ELSE IF check(ts, current, {"STRING"})
    THEN leaf(ts, current, StringLiteral(ts[current + 1].value))
    ELSE IF check(ts, current, {"DATE"})
    THEN leaf(ts, current, DateLiteral(ts[current + 1].value))
    ELSE IF check(ts, current, {"JSON_FUNC"})
    THEN parseJsonExpression(ts, current + 1)
    ELSE IF check(ts, current, {"NOW_FUNC"})
    THEN nowCall(ts,
                 parserConsume(ts, current + 1, "LEFT_PAREN",
                               "Expected \"(\" after NOW"),
                 parserConsume(ts, current + 2, "RIGHT_PAREN",
                               "Expected \")\" after NOW()"))
    ELSE IF check(ts, current, {"LEFT_PAREN"})
    THEN IF checkArrayLiteral(ts, current + 1)
         THEN parseArrayExpression(ts, current + 1)
         ELSE group(ts, parseExpression(ts, current + 1))
    ELSE IF check(ts, current, {"IDENTIFIER"})
    THEN leaf(ts, current, Identifier(text(ts[current + 1].value)))
    ELSE error(ts, current, "Unexpected token")

\* the do-while of Parser.parseArrayExpression: element is the element just
\* parsed
elementsLoop(ts, elements, element) ==
    IF ~element.ok THEN element
    ELSE IF check(ts, element.current, {"COMMA"})
    THEN elementsLoop(ts, Append(elements, element.node),
                      parseExpression(ts, element.current + 1))
    ELSE Built([type |-> "ArrayExpression",
                elements |-> Append(elements, element.node)],
               element.current)

\* the end of an array expression: the ')' and the node
arrayEnd(ts, array, close) ==
    IF ~array.ok THEN array
    ELSE IF ~close.ok THEN close
    ELSE Built(Positioned(array.node, ts, close.current), close.current)

arrayClose(ts, array) ==
    arrayEnd(ts, array,
             parserConsume(ts, array.current, "RIGHT_PAREN",
                           "Expected \")\" after array elements"))

\* Parser.parseArrayExpression
parseArrayExpression(ts, current) ==
    IF check(ts, current, {"RIGHT_PAREN"})
    THEN arrayClose(ts, Built([type |-> "ArrayExpression",
                               elements |-> <<>>], current))
    ELSE arrayClose(ts, elementsLoop(ts, <<>>, parseExpression(ts, current)))

-----------------------------------------------------------------------------
(* json(...): the parser writes the object out as JSON text and hands it   *)
(* to JSON.parse (src/unnamed/part_004, lines 331-454).                    *)

\* a plain object: its properties in insertion order
ObjV(pairs) == [k |-> "object", b |-> FALSE, n |-> 0, s |-> <<>>, l |-> pairs]

\* what JSON.parse has read: a value and the text left, or a SyntaxError
JsonRead(v, rest) == [ok |-> TRUE, v |-> v, rest |-> rest]
JsonSyntaxError == [ok |-> FALSE, v |-> BoolV(FALSE), rest |-> <<>>]

startsWith(chars, prefix) ==
    Len(chars) >= Len(prefix) /\ SubSeq(chars, 1, Len(prefix)) = prefix
drop(chars, count) == SubSeq(chars, count + 1, Len(chars))

TrueText == <<"t", "r", "u", "e">>
FalseText == <<"f", "a", "l", "s", "e">>

\* the character a JSON escape stands for, "" when JSON has no such
\* escape (the escapes b and u do not occur in the texts of the model)
jsonEscape(char) ==
    CASE char = "\"" -> "\"" [] char = "\\" -> "\\" [] char = "/" -> "/"
      [] char = "n" -> "\n" [] char = "t" -> "\t" [] char = "r" -> "\r"
      [] char = "f" -> "\f"
      [] OTHER -> ""

\* a JSON string after its opening quote
RECURSIVE jsonText(_, _)
jsonText(chars, acc) ==
    IF chars = <<>> THEN JsonSyntaxError
    ELSE IF chars[1] = "\"" THEN JsonRead(StrV(acc), Tail(chars))
    ELSE IF chars[1] = "\\"
    THEN IF Len(chars) >= 2 /\ jsonEscape(chars[2]) # ""
         THEN jsonText(drop(chars, 2), Append(acc, jsonEscape(chars[2])))
         ELSE JsonSyntaxError
    ELSE IF chars[1] \in {"\n", "\t", "\r"} THEN JsonSyntaxError
    ELSE jsonText(Tail(chars), Append(acc, chars[1]))

\* the digits at the head of chars
RECURSIVE leadingDigits(_)
leadingDigits(chars) ==
    IF chars = <<>> \/ chars[1] \notin DigitSet THEN <<>>
    ELSE <<chars[1]>> \o leadingDigits(Tail(chars))

\* the fraction of a JSON number, whole being what stands before it
jsonFraction(whole, chars) ==
    IF chars # <<>> /\ chars[1] = "."
    THEN IF leadingDigits(Tail(chars)) = <<>> THEN JsonSyntaxError
         ELSE JsonRead(parseFloat(whole \o <<".">> \o leadingDigits(Tail(chars))),
                       drop(chars, 1 + Len(leadingDigits(Tail(chars)))))
    ELSE JsonRead(parseFloat(whole), chars)

\* a JSON number: no leading zero before another digit
jsonNumber(chars) ==
    IF chars[1] = "0" THEN jsonFraction(<<"0">>, Tail(chars))
    ELSE jsonFraction(leadingDigits(chars),
                      drop(chars, Len(leadingDigits(chars))))

\* the property key set to v: a repeated key keeps its place and takes the
\* later value
RECURSIVE putProperty(_, _, _)
putProperty(pairs, key, v) ==
    IF pairs = <<>> THEN <<[key |-> key, value |-> v]>>
    ELSE IF Head(pairs).key = key
    THEN <<[key |-> key, value |-> v]>> \o Tail(pairs)
    ELSE <<Head(pairs)>> \o putProperty(Tail(pairs), key, v)

RECURSIVE jsonValue(_)
RECURSIVE jsonElements(_, _)
RECURSIVE jsonMembers(_, _)
RECURSIVE jsonAfterElement(_, _)
RECURSIVE jsonAfterKey(_, _)
RECURSIVE jsonAfterMember(_, _, _)

\* a JSON value at the head of chars
jsonValue(chars) ==
    IF chars = <<>> THEN JsonSyntaxError
    ELSE IF chars[1] = "{"
    THEN IF Len(chars) >= 2 /\ chars[2] = "}"
         THEN JsonRead(ObjV(<<>>), drop(chars, 2))
         ELSE jsonMembers(Tail(chars), <<>>)
    ELSE IF chars[1] = "["
    THEN IF Len(chars) >= 2 /\ chars[2] = "]"
         THEN JsonRead(ListV(<<>>), drop(chars, 2))
         ELSE jsonElements(Tail(chars), <<>>)
    ELSE IF chars[1] = "\"" THEN jsonText(Tail(chars), <<>>)
    ELSE IF chars[1] \in DigitSet THEN jsonNumber(chars)
    ELSE IF startsWith(chars, TrueText)
    THEN JsonRead(BoolV(TRUE), drop(chars, 4))
    ELSE IF startsWith(chars, FalseText)
    THEN JsonRead(BoolV(FALSE), drop(chars, 5))
    ELSE JsonSyntaxError

\* the elements of a JSON array: an element, then ',' or ']'
jsonElements(chars, acc) == jsonAfterElement(jsonValue(chars), acc)
jsonAfterElement(element, acc) ==
    IF ~element.ok \/ element.rest = <<>> THEN JsonSyntaxError
    ELSE IF element.rest[1] = ","
    THEN jsonElements(Tail(element.rest), Append(acc, element.v))
    ELSE IF element.rest[1] = "]"
    THEN JsonRead(ListV(Append(acc, element.v)), Tail(element.rest))
    ELSE JsonSyntaxError

\* the members of a JSON object: a key, ':', a value, then ',' or '}'
jsonMembers(chars, acc) ==
    IF chars = <<>> \/ chars[1] # "\"" THEN JsonSyntaxError
    ELSE jsonAfterKey(jsonText(Tail(chars), <<>>), acc)
jsonAfterKey(key, acc) ==
    IF ~key.ok \/ key.rest = <<>> \/ key.rest[1] # ":" THEN JsonSyntaxError
    ELSE jsonAfterMember(key.v.s, jsonValue(Tail(key.rest)), acc)
jsonAfterMember(key, member, acc) ==
    IF ~member.ok \/ member.rest = <<>> THEN JsonSyntaxError
    ELSE IF member.rest[1] = ","
    THEN jsonMembers(Tail(member.rest), putProperty(acc, key, member.v))
    ELSE IF member.rest[1] = "}"
    THEN JsonRead(ObjV(putProperty(acc, key, member.v)), Tail(member.rest))
    ELSE JsonSyntaxError

\* JSON.parse: the whole text is one value
jsonParsed(read) == IF read.ok /\ read.rest = <<>> THEN read ELSE JsonSyntaxError
JSONparse(chars) == jsonParsed(jsonValue(chars))

\* JSON text written so far, current standing after the tokens it came from
Written(str, current) ==
    [ok |-> TRUE, str |-> str, current |-> current, err |-> NoParseError]
\* the error e thrown while the text was written
NotWritten(e) ==
    [ok |-> FALSE, str |-> <<>>, current |-> e.current, err |-> e.err]

\* `"${value}"`
quoted(value) == <<"\"">> \o value \o <<"\"">>

RECURSIVE jsonArrayLoop(_, _, _, _)
\* the loop of Parser.parseJsonArray
jsonArrayLoop(ts, current, arrayString, depth) ==
    IF parserIsAtEnd(ts, current)
    THEN Written(arrayString \o <<"]">>, current)
    ELSE IF ts[current + 1].type = "LEFT_BRACKET"
    THEN jsonArrayLoop(ts, current + 1, arrayString \o <<"[">>, depth + 1)
    ELSE IF ts[current + 1].type = "RIGHT_BRACKET"
    THEN IF depth = 0 THEN Written(arrayString \o <<"]">>, current + 1)
         ELSE jsonArrayLoop(ts, current + 1, arrayString \o <<"]">>,
                            depth - 1)
    ELSE IF ts[current + 1].type = "COMMA"
    THEN jsonArrayLoop(ts, current + 1, arrayString \o <<",">>, depth)
    ELSE IF ts[current + 1].type \in {"STRING", "IDENTIFIER"}
    THEN jsonArrayLoop(ts, current + 1,
                       arrayString \o quoted(ts[current + 1].value), depth)
    ELSE IF ts[current + 1].type = "NUMBER"
    THEN jsonArrayLoop(ts, current + 1,
                       arrayString \o ts[current + 1].value, depth)
    ELSE IF ts[current + 1].type = "BOOLEAN_TRUE"
    THEN jsonArrayLoop(ts, current + 1, arrayString \o TrueText, depth)
    ELSE IF ts[current + 1].type = "BOOLEAN_FALSE"
    THEN jsonArrayLoop(ts, current + 1, arrayString \o FalseText, depth)
    ELSE NotWritten(error(ts, current, "Unexpected token in JSON array"))

\* Parser.parseJsonArray, current standing on the '['
parseJsonArray(ts, current) ==
    jsonArrayLoop(ts, current + 1, <<"[">>, 0)

RECURSIVE jsonObjectLoop(_, _, _, _)

\* the value of a property was written as array: the loop goes on
afterJsonArray(ts, jsonString, array) ==
    IF ~array.ok THEN array
    ELSE jsonObjectLoop(ts, array.current, jsonString \o array.str, FALSE)

\* the value of a property (part_004, lines 377-394)
jsonPropertyValue(ts, current, jsonString) ==
    IF check(ts, current, {"STRING"})
    THEN jsonObjectLoop(ts, current + 1,
                        jsonString \o quoted(ts[current + 1].value), FALSE)
    ELSE IF check(ts, current, {"NUMBER"})
    THEN jsonObjectLoop(ts, current + 1,
                        jsonString \o ts[current + 1].value, FALSE)
    ELSE IF check(ts, current, {"BOOLEAN_TRUE"})
    THEN jsonObjectLoop(ts, current + 1, jsonString \o TrueText, FALSE)
    ELSE IF check(ts, current, {"BOOLEAN_FALSE"})
    THEN jsonObjectLoop(ts, current + 1, jsonString \o FalseText, FALSE)
    ELSE IF check(ts, current, {"LEFT_BRACKET"})
    THEN afterJsonArray(ts, jsonString, parseJsonArray(ts, current))
    ELSE IF check(ts, current, {"LEFT_BRACE"})
    THEN NotWritten(error(ts, current + 1,
                          "Nested JSON objects not yet supported"))
    ELSE NotWritten(error(ts, current, "Invalid JSON value"))

\* the key of a property and the ':' (part_004, lines 370-375)
jsonPropertyKey(ts, current, jsonString) ==
    IF ~check(ts, current, {"STRING"})
    THEN NotWritten(error(ts, current, "Expected string key in JSON object"))
    ELSE IF ~check(ts, current + 1, {"COLON"})
    THEN NotWritten(error(ts, current + 1,
                          "Expected \":\" after JSON object key"))
    ELSE jsonPropertyValue(ts, current + 2,
                           jsonString \o quoted(ts[current + 1].value)
                               \o <<":">>)

\* the loop of Parser.parseJsonObject and the closing '}'
jsonObjectLoop(ts, current, jsonString, isFirst) ==
    IF check(ts, current, {"RIGHT_BRACE"})
    THEN Written(jsonString \o <<"}">>, current + 1)
    ELSE IF parserIsAtEnd(ts, current)
    THEN NotWritten(error(ts, current,
                          "Expected \"}\" to close JSON object"))
    ELSE IF isFirst THEN jsonPropertyKey(ts, current, jsonString)
    ELSE IF ~check(ts, current, {"COMMA"})
    THEN NotWritten(error(ts, current,
                          "Expected \",\" between JSON object properties"))
    ELSE jsonPropertyKey(ts, current + 1, jsonString \o <<",">>)

\* Parser.parseJsonObject
parseJsonObject(ts, current) ==
    IF ~check(ts, current, {"LEFT_BRACE"})
    THEN NotWritten(error(ts, current, "Expected \"{\" to start JSON object"))
    ELSE jsonObjectLoop(ts, current + 1, <<"{">>, TRUE)

\* the end of parseJsonExpression without the catch: the SyntaxError of
\* JSON.parse leaves the parser
jsonNode_uncaught(ts, current, read) ==
    IF read.ok
    THEN Built(Positioned([type |-> "JsonExpression", value |-> read.v],
                          ts, current), current)
    ELSE [ok |-> FALSE, node |-> NoNode, current |-> current,
          err |-> [name |-> "SyntaxError",
                   message |-> "Unexpected token in JSON",
                   position |-> NoPosition]]

\* the end of Parser.parseJsonExpression: JSON.parse of the text written
jsonNode(ts, current, read) ==
    IF read.ok
    THEN Built(Positioned([type |-> "JsonExpression", value |-> read.v],
                          ts, current), current)
    ELSE error(ts, current, "Invalid JSON object")

jsonClose(ts, written, close) ==
    IF ~written.ok
    THEN [ok |-> FALSE, node |-> NoNode, current |-> written.current,
          err |-> written.err]
    ELSE IF ~close.ok THEN close
    ELSE jsonNode(ts, close.current, JSONparse(written.str))

jsonObject(ts, written) ==
    jsonClose(ts, written,
              parserConsume(ts, written.current, "RIGHT_PAREN",
                            "Expected \")\" after json object"))

\* Parser.parseJsonExpression, current standing after the json token
parseJsonExpression(ts, current) ==
    IF ~check(ts, current, {"LEFT_PAREN"})
    THEN error(ts, current, "Expected \"(\" after json")
    ELSE jsonObject(ts, parseJsonObject(ts, current + 1))

-----------------------------------------------------------------------------
(* Feature flags and the program (src/unnamed/part_004, lines 47-131).     *)

\* Parser.checkExpression
checkExpression(ts, current) ==
    check(ts, current,
          {"BOOLEAN_TRUE", "BOOLEAN_FALSE", "NUMBER", "STRING", "DATE",
           "JSON_FUNC", "NOW_FUNC", "LEFT_PAREN", "IDENTIFIER", "NOT"})

\* the body of a flag being read: its rules, its default, current
Body(rules, hasDefault, defaultValue, current) ==
    [ok |-> TRUE, rules |-> rules, hasDefault |-> hasDefault,
     defaultValue |-> defaultValue, current |-> current,
     err |-> NoParseError]
NoBody(e) ==
    [ok |-> FALSE, rules |-> <<>>, hasDefault |-> FALSE,
     defaultValue |-> NoNode, current |-> e.current, err |-> e.err]

RECURSIVE bodyLoop(_, _)

\* a rule: the value after the '->' was parsed
ruleEnd(ts, body, expr, value) ==
    IF ~value.ok THEN NoBody(value)
    ELSE bodyLoop(ts, Body(Append(body.rules,
                                  Positioned([type |-> "Rule",
                                              condition |-> expr.node,
                                              value |-> value.node],
                                             ts, value.current)),
                           body.hasDefault, body.defaultValue,
                           value.current))

\* the expression of a turn of the loop is a condition when '->' follows
\* it, the default value otherwise (part_004, lines 93-107)
ruleOrDefault(ts, body, expr) ==
    IF ~expr.ok THEN NoBody(expr)
    ELSE IF check(ts, expr.current, {"ARROW"})
    THEN ruleEnd(ts, body, expr, parseExpression(ts, expr.current + 1))
    ELSE bodyLoop(ts, Body(body.rules, TRUE, expr.node, expr.current))

\* the loop over the body of a complex flag (part_004, lines 90-111)
bodyLoop(ts, body) ==
    IF check(ts, body.current, {"RIGHT_BRACE"})
           \/ parserIsAtEnd(ts, body.current)
    THEN body
    ELSE IF checkExpression(ts, body.current)
    THEN ruleOrDefault(ts, body, parseExpression(ts, body.current))
    ELSE NoBody(error(ts, body.current, "Expected expression or rule"))

\* a FeatureFlag node of a body
flagNode(ts, nameToken, body, current) ==
    Built([type |-> "FeatureFlag", name |-> text(nameToken.value),
           body |-> body, position |-> tokenToPosition(nameToken)],
          current)

\* FF-name -> value
simpleFlag(ts, nameToken, value) ==
    IF ~value.ok THEN value
    ELSE flagNode(ts, nameToken,
                  Positioned(SimpleFeatureFlag(value.node), ts,
                             value.current),
                  value.current)

\* FF-name { rules... defaultValue }: the '}' and the node
complexFlag(ts, nameToken, body) ==
    IF ~body.ok
    THEN [ok |-> FALSE, node |-> NoNode, current |-> body.current,
          err |-> body.err]
    ELSE IF ~check(ts, body.current, {"RIGHT_BRACE"})
    THEN error(ts, body.current, "Expected \"}\" after feature flag body")
    ELSE flagNode(ts, nameToken,
                  Positioned(ComplexFeatureFlag(body.rules, body.hasDefault,
                                                body.defaultValue),
                             ts, body.current + 1),
                  body.current + 1)

\* Parser.parseFeatureFlag
parseFeatureFlag(ts, current) ==
    IF ~check(ts, current, {"FEATURE_FLAG_NAME"})
    THEN error(ts, current, "Expected feature flag name")
    ELSE IF check(ts, current + 1, {"ARROW"})
    THEN simpleFlag(ts, ts[current + 1], parseExpression(ts, current + 2))
    ELSE IF check(ts, current + 1, {"LEFT_BRACE"})
    THEN complexFlag(ts, ts[current + 1],
                     bodyLoop(ts, Body(<<>>, FALSE, NoNode, current + 2)))
    ELSE error(ts, current + 1,
               "Expected \"->\" or \"{\" after feature flag name")

\* what Parser.parse gives: the Program returned, or the error thrown
Returned(program, current) ==
    [called |-> TRUE, ok |-> TRUE, program |-> program, current |-> current,
     err |-> NoParseError]
Thrown(e) ==
    [called |-> TRUE, ok |-> FALSE, program |-> NoNode,
     current |-> e.current, err |-> e.err]

RECURSIVE programLoop(_, _, _)
\* the flag of a turn of the loop of Parser.parse
afterFeature(ts, features, flag) ==
    IF ~flag.ok THEN Thrown(flag)
    ELSE programLoop(ts, Append(features, flag.node), flag.current)

\* the loop of Parser.parse
programLoop(ts, features, current) ==
    IF parserIsAtEnd(ts, current)
    THEN Returned([type |-> "Program", features |-> features,
                   position |-> getPosition(ts, current)], current)
    ELSE afterFeature(ts, features, parseFeatureFlag(ts, current))

\* new Parser(tokens).parse()
parse(tokenArray) == programLoop(filterTokens(tokenArray), <<>>, 0)

\* the number of newline characters before offset p of the input
Newlines(p) == Cardinality({q \in 0..(p - 1) : charAt(q) = "\n"})

\* C27: the line counter is incremented at every newline character of the
\* source, also at one inside a string literal, at one that follows a
\* backslash there, and at one inside a block comment, so that the line
\* recorded in every token is 1 plus the number of newline characters
\* before its start; between two calls of scanToken the counter is 1 plus
\* the number of newline characters scanned.
C27_LineIsNewlinesBefore ==
    /\ \A k \in 1..Len(tokens) :
           tokens[k].line = 1 + Newlines(tokens[k].start)
    /\ pc = "scanning" => line = 1 + Newlines(position)

-----------------------------------------------------------------------------
(* Claims about the words json and NOW, checked under SpecScan: the tokens *)
(* are those of the scanner, and the parser is run on them.                *)

\* the token is the word json or NOW as the text has it, and no string
IsCallWord(t) == t.value \in {JsonWord, NowWord} /\ SpanText(t) = t.value
\* the type the claim gives the word of token t
CallWordType(t) ==
    IF charAt(t.end) # "(" THEN "IDENTIFIER"
    ELSE IF t.value = JsonWord THEN "JSON_FUNC" ELSE "NOW_FUNC"
\* the tokens are those of a simple flag whose value is one word
OneWordFlag ==
    /\ pc = "done"
    /\ [k \in 1..Len(tokens) |-> tokens[k].type]
           = <<"FEATURE_FLAG_NAME", "ARROW", "IDENTIFIER", "EOF">>

\* C25: the words json and NOW are scanned as JSON_FUNC and NOW_FUNC
\* exactly when the character right after the word is '('; anywhere else
\* they are IDENTIFIER tokens, which the parser makes Identifier nodes.
C25_CallWordsBeforeParenthesis ==
    /\ \A k \in 1..Len(tokens) :
           /\ IsCallWord(tokens[k]) =>
                  tokens[k].type = CallWordType(tokens[k])
           /\ tokens[k].type = "JSON_FUNC" =>
                  tokens[k].value = JsonWord /\ charAt(tokens[k].end) = "("
           /\ tokens[k].type = "NOW_FUNC" =>
                  tokens[k].value = NowWord /\ charAt(tokens[k].end) = "("
    /\ OneWordFlag =>
           /\ parse(tokens).ok
           /\ parse(tokens).program.features[1].body.type = "SimpleFeatureFlag"
           /\ parse(tokens).program.features[1].body.value =
                  [type |-> "Identifier", name |-> text(tokens[3].value),
                   position |-> tokenToPosition(tokens[3])]

\* 'json (' has given an IDENTIFIER and a parenthesis
C25_Witness ==
    /\ pc = "done"
    /\ Len(tokens) = 3
    /\ tokens[1].type = "IDENTIFIER" /\ tokens[1].value = JsonWord
    /\ tokens[2].type = "LEFT_PAREN"

-----------------------------------------------------------------------------
(* The parser as a state machine: a token array is handed in and parsed.   *)
(* The arrays are made of phrases: up to MaxPhrases phrases in a frame.     *)
(* A token stands at line 1, its column and start being its place in the   *)
(* array.                                                                  *)

Tk(type, value) == [type |-> type, value |-> value]
Word(name) == Tk("IDENTIFIER", <<name>>)
FlagName(name) == Tk("FEATURE_FLAG_NAME", <<"F", "F", "-", name>>)
Quoted(char) == Tk("STRING", <<char>>)
Num(digit) == Tk("NUMBER", <<digit>>)
Arrow == Tk("ARROW", <<"-", ">">>)
Equals == Tk("EQUALS", <<"=", "=">>)
And == Tk("AND", <<"a", "n", "d">>)
Or == Tk("OR", <<"o", "r">>)
Not == Tk("NOT", <<"n", "o", "t">>)
In == Tk("IN", <<"i", "n">>)
LeftParen == Tk("LEFT_PAREN", <<"(">>)
RightParen == Tk("RIGHT_PAREN", <<")">>)
LeftBrace == Tk("LEFT_BRACE", <<"{">>)
RightBrace == Tk("RIGHT_BRACE", <<"}">>)
LeftBracket == Tk("LEFT_BRACKET", <<"[">>)
RightBracket == Tk("RIGHT_BRACKET", <<"]">>)
Comma == Tk("COMMA", <<",">>)
Colon == Tk("COLON", <<":">>)
Json == Tk("JSON_FUNC", <<"j", "s", "o", "n">>)
Comment == Tk("COMMENT", <<"/", "/">>)
EndOfFile == Tk("EOF", <<>>)

\* what stands around the phrases: nothing, FF-a -> ..., FF-a { ... with
\* and without the closing brace, all with the EOF token the scanner adds,
\* and FF-a -> ... without it
Frames ==
    { <<<<>>, <<EndOfFile>>>>,
      <<<<FlagName("a"), Arrow>>, <<EndOfFile>>>>,
      <<<<FlagName("a"), LeftBrace>>, <<RightBrace, EndOfFile>>>>,
      <<<<FlagName("a"), LeftBrace>>, <<EndOfFile>>>>,
      <<<<FlagName("a"), Arrow>>, <<>>>> }

Phrases ==
    << <<Word("a")>>,
       <<Word("a"), Or, Word("b")>>,
       <<And, Word("c")>>,
       <<Word("a"), Equals, Word("b")>>,
       <<And, Word("c"), Equals, Word("d")>>,
       <<Word("a"), And, Word("b")>>,
       <<Not>>, <<In>>,
       <<LeftParen, Word("ms"), Comma, Word("mx"), Comma, Word("m3"),
         RightParen>>,
       <<LeftParen>>, <<RightParen>>,
       <<LeftParen, Word("a"), Equals, Word("b"), Comma, Word("c"),
         RightParen>>,
       <<LeftParen, Word("a"), Equals, Word("b"), RightParen>>,
       <<And, LeftParen, Word("c"), Equals, Word("d"), RightParen>>,
       <<Word("a"), Arrow, Word("b")>>,
       <<Json, LeftParen, LeftBrace, Quoted("k"), Colon, Quoted("v")>>,
       <<RightBrace, RightParen>>,
       <<Comma, Quoted("j"), Colon, LeftBracket, Num("1"), Comma, Word("x"),
         RightBracket>>,
       <<Json, LeftParen, LeftBrace, Quoted("k"), Colon, LeftBracket,
         LeftBracket, Num("1"), RightBracket, RightBracket, RightBrace,
         RightParen>>,
       <<Json, LeftParen, LeftBrace, Quoted("k"), Colon, LeftBrace,
         RightBrace, RightBrace, RightParen>>,
       <<Json, LeftParen, LeftBrace, Quoted("k"), Colon, LeftBracket,
         Comma, RightBracket, RightBrace, RightParen>>,
       <<Comment>>,
       <<FlagName("b"), Arrow, Word("b")>>,
       <<RightBrace>> >>

PhraseLists == UNION {[1..n -> 1..Len(Phrases)] : n \in 0..MaxPhrases}

\* the tokens of the phrases, placed
Placed(ts) ==
    [i \in 1..Len(ts) |->
        [type |-> ts[i].type, value |-> ts[i].value, line |-> 1,
         column |-> i, start |-> i - 1, end |-> i]]
TokenArrays ==
    {Placed(frame[1] \o Flatten([i \in 1..Len(f) |-> Phrases[f[i]]])
              \o frame[2]) :
        frame \in Frames, f \in PhraseLists}

InitParse ==
    /\ ptokens \in TokenArrays
    /\ parsed = NoParse
    /\ InterpIdle
    /\ ScanIdle
    /\ EvalIdle

\* new Parser(ptokens).parse()
Parse ==
    /\ parsed' = parse(ptokens)
    /\ UNCHANGED ptokens
    /\ UNCHANGED interpVars
    /\ UNCHANGED scanVars
    /\ UNCHANGED evalVars

NextParse == Parse

SpecParse == InitParse /\ [][NextParse]_vars

-----------------------------------------------------------------------------
(* Claims about the parser, checked under SpecParse.                       *)

\* a node without the positions
RECURSIVE Shape(_)
Shape(node) ==
    CASE node.type = "BinaryExpression" ->
            BinaryExpression(Shape(node.left), node.operator,
                             Shape(node.right))
      [] node.type = "UnaryExpression" ->
            [type |-> "UnaryExpression", operator |-> node.operator,
             operand |-> Shape(node.operand)]
      [] node.type = "GroupedExpression" ->
            [type |-> "GroupedExpression",
             expression |-> Shape(node.expression)]
      [] node.type = "ArrayExpression" ->
            [type |-> "ArrayExpression",
             elements |-> [i \in 1..Len(node.elements) |->
                              Shape(node.elements[i])]]
      [] OTHER -> [f \in DOMAIN node \ {"position"} |-> node[f]]

\* the expressions a program holds as the value of a simple flag, as the
\* condition or the value of a rule, and as a default
FlagRoots(body) ==
    IF body.type = "SimpleFeatureFlag" THEN {body.value}
    ELSE {body.rules[i].condition : i \in 1..Len(body.rules)}
           \cup {body.rules[i].value : i \in 1..Len(body.rules)}
           \cup (IF body.hasDefault THEN {body.defaultValue} ELSE {})
Roots(program) ==
    UNION {FlagRoots(program.features[i].body) :
              i \in 1..Len(program.features)}

\* the level of precedence of a binary operator, the loosest first
Level(operator) ==
    CASE operator = "or" -> 1
      [] operator = "and" -> 2
      [] operator \in {"==", "!=", "="} -> 3
      [] operator \in {">", "<", ">=", "<=", "in"} -> 4

\* the tree obeys precedence and left associativity: a binary node that is
\* the left operand of a binary node binds at least as tightly as it, one
\* that is the right operand binds more tightly, and the operand of not is
\* no binary node
RECURSIVE WellNested(_)
WellNested(node) ==
    CASE node.type = "BinaryExpression" ->
            /\ node.left.type = "BinaryExpression" =>
                   Level(node.left.operator) >= Level(node.operator)
            /\ node.right.type = "BinaryExpression" =>
                   Level(node.right.operator) > Level(node.operator)
            /\ WellNested(node.left) /\ WellNested(node.right)
      [] node.type = "UnaryExpression" ->
            /\ node.operand.type # "BinaryExpression"
            /\ WellNested(node.operand)
      [] node.type = "GroupedExpression" -> WellNested(node.expression)
      [] node.type = "ArrayExpression" ->
            \A i \in 1..Len(node.elements) : WellNested(node.elements[i])
      [] OTHER -> TRUE

\* the words of an expression made of identifiers, operators, groups and
\* lists, from left to right
RECURSIVE Yield(_)
RECURSIVE YieldAll(_)
Yield(node) ==
    CASE node.type = "BinaryExpression" ->
            Yield(node.left) \o <<node.operator>> \o Yield(node.right)
      [] node.type = "UnaryExpression" ->
            <<node.operator>> \o Yield(node.operand)
      [] node.type = "GroupedExpression" ->
            <<"(">> \o Yield(node.expression) \o <<")">>
      [] node.type = "ArrayExpression" ->
            <<"(">> \o YieldAll(node.elements) \o <<")">>
      [] node.type = "Identifier" -> <<node.name>>
      [] OTHER -> <<node.type>>
YieldAll(elements) ==
    IF elements = <<>> THEN <<>>
    ELSE IF Len(elements) = 1 THEN Yield(elements[1])
    ELSE Yield(elements[1]) \o <<",">> \o YieldAll(Tail(elements))

\* the words of a program of simple flags
RECURSIVE YieldFlags(_)
YieldFlags(features) ==
    IF features = <<>> THEN <<>>
    ELSE <<Head(features).name, "->">> \o Yield(Head(features).body.value)
             \o YieldFlags(Tail(features))

\* the words of the tokens the parser keeps, without the EOF token
RECURSIVE Words(_)
Words(ts) ==
    IF ts = <<>> \/ Head(ts).type = "EOF" THEN <<>>
    ELSE <<text(Head(ts).value)>> \o Words(Tail(ts))

HasType(ts, types) == \E i \in 1..Len(ts) : ts[i].type \in types
AllSimple(program) ==
    \A i \in 1..Len(program.features) :
        program.features[i].body.type = "SimpleFeatureFlag"

\* FF-a -> phrases
SimpleOf(phrases) ==
    Placed(<<FlagName("a"), Arrow>> \o phrases \o <<EndOfFile>>)
\* the expression a program of one simple flag holds
TheValue == Shape(parsed.program.features[1].body.value)

Bin(l, op, r) == BinaryExpression(Identifier(l), op, Identifier(r))

RECURSIVE Nodes(_)
Nodes(node) ==
    {node} \cup
    CASE node.type = "BinaryExpression" ->
            Nodes(node.left) \cup Nodes(node.right)
      [] node.type = "UnaryExpression" -> Nodes(node.operand)
      [] node.type = "GroupedExpression" -> Nodes(node.expression)
      [] node.type = "ArrayExpression" ->
            UNION {Nodes(node.elements[i]) : i \in 1..Len(node.elements)}
      [] OTHER -> {}
ProgramNodes(program) == UNION {Nodes(e) : e \in Roots(program)}

\* how many tokens of a type ptokens holds from place from to place to
Count(type, from, to) ==
    Cardinality({i \in from..to : ptokens[i].type = type})
\* the place of the '(' that the ')' at place close closes
OpenOf(close) ==
    CHOOSE open \in 1..(close - 1) :
        /\ ptokens[open].type = "LEFT_PAREN"
        /\ Count("LEFT_PAREN", open + 1, close - 1)
             = Count("RIGHT_PAREN", open + 1, close - 1)
        /\ \A i \in (open + 1)..(close - 1) :
               Count("LEFT_PAREN", open + 1, i)
                   >= Count("RIGHT_PAREN", open + 1, i)
\* the places between open and close that are inside no inner parentheses
TopLevel(open, close) ==
    {i \in (open + 1)..(close - 1) :
        /\ ptokens[i].type \notin {"LEFT_PAREN", "RIGHT_PAREN"}
        /\ Count("LEFT_PAREN", open + 1, i)
             = Count("RIGHT_PAREN", open + 1, i)}
OperatorTokens ==
    {"AND", "OR", "NOT", "EQUALS", "NOT_EQUALS", "ASSIGN", "GREATER_THAN",
     "LESS_THAN", "GREATER_EQUAL", "LESS_EQUAL", "IN"}
\* a comma and no operator between the parentheses, inner ones left out
ReadsAsList(open, close) ==
    /\ \E i \in TopLevel(open, close) : ptokens[i].type = "COMMA"
    /\ \A i \in TopLevel(open, close) : ptokens[i].type \notin OperatorTokens

\* the place of the token a node took its position from
PlaceOf(node) == node.position.index + 1

Group(e) == [type |-> "GroupedExpression", expression |-> e]

RECURSIVE YieldRules(_)
YieldRules(rules) ==
    IF rules = <<>> THEN <<>>
    ELSE Yield(Head(rules).condition) \o <<"->">> \o Yield(Head(rules).value)
             \o YieldRules(Tail(rules))
YieldFeature(flag) ==
    IF flag.body.type = "SimpleFeatureFlag"
    THEN <<flag.name, "->">> \o Yield(flag.body.value)
    ELSE <<flag.name, "{">> \o YieldRules(flag.body.rules)
             \o (IF flag.body.hasDefault THEN Yield(flag.body.defaultValue)
                 ELSE <<>>)
             \o <<"}">>
RECURSIVE YieldProgram(_)
YieldProgram(features) ==
    IF features = <<>> THEN <<>>
    ELSE YieldFeature(Head(features)) \o YieldProgram(Tail(features))

\* FF-a { phrases }
ComplexOf(phrases) ==
    Placed(<<FlagName("a"), LeftBrace>> \o phrases
               \o <<RightBrace, EndOfFile>>)

\* C13: a complex body that parses holds its rules and then at most one
\* default, which stands last: the program reads back as its tokens, and
\* a body with a rule or a second bare expression after a bare expression
\* does not parse.
C13_OneDefaultLast ==
    parsed.called =>
        /\ (parsed.ok /\ ~HasType(ptokens, {"JSON_FUNC"}))
               => YieldProgram(parsed.program.features)
                    = Words(filterTokens(ptokens))
        /\ ptokens \in {ComplexOf(<<Word("a"), Word("a"), Arrow, Word("b")>>),
                        ComplexOf(<<Word("a"), Word("a")>>)}
               => /\ ~parsed.ok
                  /\ parsed.err.name = "ParseError"

Primitive(v) == v.k \in {"str", "num", "bool"}
\* a value the json mini-grammar allows for a property: a primitive, or a
\* flat array of primitives
AllowedJsonValue(v) ==
    \/ Primitive(v)
    \/ v.k = "list" /\ \A i \in 1..Len(v.l) : Primitive(v.l[i])

\* C14: a json(...) literal that parses is an object whose values are
\* strings, numbers, booleans or flat arrays of primitives; with a nested
\* object, or another value, the parse fails with a ParseError.
C14_JsonValues ==
    parsed.called =>
        /\ parsed.ok =>
             \A node \in ProgramNodes(parsed.program) :
                 node.type = "JsonExpression" =>
                     /\ node.value.k = "object"
                     /\ \A i \in 1..Len(node.value.l) :
                            AllowedJsonValue(node.value.l[i].value)
        /\ ptokens = SimpleOf(<<Json, LeftParen, LeftBrace, Quoted("k"),
                                Colon, LeftBrace, RightBrace, RightBrace,
                                RightParen>>)
             => ~parsed.ok /\ parsed.err.name = "ParseError"

\* the nodes of a program: the flags, their bodies, their rules and the
\* nodes of their expressions
FlagNodes(flag) ==
    {flag, flag.body} \cup
    (IF flag.body.type = "ComplexFeatureFlag"
     THEN {flag.body.rules[i] : i \in 1..Len(flag.body.rules)} ELSE {})
TreeNodes(program) ==
    UNION {FlagNodes(program.features[i]) : i \in 1..Len(program.features)}
        \cup ProgramNodes(program)
NodeTypes ==
    {"FeatureFlag", "SimpleFeatureFlag", "ComplexFeatureFlag", "Rule",
     "BooleanLiteral", "NumberLiteral", "StringLiteral", "DateLiteral",
     "Identifier", "JsonExpression", "NowExpression", "BinaryExpression",
     "UnaryExpression", "ArrayExpression", "GroupedExpression"}

\* C15: a call of parse ends in one of two ways.  It returns a Program
\* with no hole in it, every token before the EOF token (or the end of the
\* array) taken; or it throws a ParseError that carries the position of
\* the token it stopped at, and returns no tree.  No other error leaves
\* parse.
C15_ProgramOrParseError ==
    parsed.called =>
        IF parsed.ok
        THEN /\ parsed.program.type = "Program"
             /\ parserIsAtEnd(filterTokens(ptokens), parsed.current)
             /\ \A node \in TreeNodes(parsed.program) :
                    node.type \in NodeTypes
             /\ parsed.err = NoParseError
        ELSE /\ parsed.err.name = "ParseError"
             /\ parsed.err.message # ""
             /\ parsed.program = NoNode
             /\ parsed.current <= Len(filterTokens(ptokens))
             /\ parsed.err.position =
                  IF parsed.current < Len(filterTokens(ptokens))
                  THEN tokenToPosition(
                           filterTokens(ptokens)[parsed.current + 1])
                  ELSE NoPosition

\* a parse that failed inside a flag, at a token after the '->'
C15_Witness ==
    /\ parsed.called /\ ~parsed.ok
    /\ parsed.err.name = "ParseError"
    /\ parsed.err.position.index > 2

-----------------------------------------------------------------------------
(* The interpreter run on one operator and its operands x and y, which the *)
(* context binds to a value or leaves unbound.                             *)

UnaryExpression(op, operand) ==
    [type |-> "UnaryExpression", operator |-> op, operand |-> operand]
ArrayExpression(elements) ==
    [type |-> "ArrayExpression", elements |-> elements]

\* x op y
OnOperands(op) == BinaryExpression(Identifier("x"), op, Identifier("y"))
\* x in (y, y)
InListOfY ==
    BinaryExpression(Identifier("x"), "in",
                     ArrayExpression(<<Identifier("y"), Identifier("y")>>))
\* model in (ms,mx,m3) of the syntax example, the model being x
InWords ==
    BinaryExpression(Identifier("x"), "in",
                     ArrayExpression(<<Identifier("ms"), Identifier("mx"),
                                       Identifier("m3")>>))

BinaryOperators == {"==", "=", "!=", "in", "and", "or"}
OperandExpressions ==
    {OnOperands(op) : op \in BinaryOperators}
    \cup {InListOfY, InWords, UnaryExpression("not", Identifier("x"))}
OperandFeatures ==
    {[name |-> "FF-test", body |-> SimpleFeatureFlag(e)] :
        e \in OperandExpressions}

NewYear == <<"2", "0", "2", "4", "-", "0", "1", "-", "0", "1">>
Property(key, value) == [key |-> key, value |-> value]

Booleans == {BoolV(TRUE), BoolV(FALSE)}
Numbers == {NumV(0), NumV(1)}
Texts == {StrV(<<>>), StrV(<<"m", "s">>), StrV(NewYear)}
Dates == {newDate(NewYear), DateV(FALSE, 0)}
Lists == {ListV(<<>>), ListV(<<StrV(<<"m", "s">>)>>)}
Objects ==
    {ObjV(<<>>), ObjV(<<Property(<<"0">>, StrV(<<"m", "s">>))>>),
     ObjV(<<Property(<<"k">>, StrV(<<"m", "s">>))>>)}
OperandValues == Booleans \cup Numbers \cup Texts \cup Dates \cup Lists \cup Objects

\* the pairs of operands: every value with itself, the values that are
\* objects to typeof with one another, the dates with the strings, the
\* booleans with the numbers
OperandPairs ==
    {<<v, v>> : v \in OperandValues}
    \cup ((Lists \cup Objects) \X (Lists \cup Objects))
    \cup ((Dates \cup Texts) \X (Dates \cup Texts))
    \cup ((Booleans \cup Numbers) \X (Booleans \cup Numbers))

OperandContexts ==
    {[x |-> pair[1], y |-> pair[2]] : pair \in OperandPairs}
    \cup {[x |-> v] : v \in Booleans \cup Texts}
    \cup {[y |-> v] : v \in Booleans}
    \cup {<<>>}

\* new Interpreter(), and the tree of a flag
InitOperands ==
    /\ context = <<>>
    /\ feature \in OperandFeatures
    /\ result = NoResult
    /\ ScanIdle
    /\ ParseIdle
    /\ EvalIdle

SetOperands == \E c \in OperandContexts : setContext(c)

NextOperands == SetOperands \/ InterpretFeatureFlag

SpecOperands == InitOperands /\ [][NextOperands]_vars

-----------------------------------------------------------------------------
(* Claims about the operators, checked under SpecOperands.                 *)

Bound(name) == name \in DOMAIN result.ctx
TheExpression == feature.body.value
OperatorIs(ops) ==
    /\ TheExpression.type = "BinaryExpression"
    /\ TheExpression.operator \in ops
    /\ TheExpression.right.type = "Identifier"

\* equality as the claim has it: the same kind and the same structure, or
\* a date and the string of its day
SameByKind(v, w) ==
    \/ v.k = w.k /\ v = w
    \/ v.k = "date" /\ w.k = "str" /\ isoDay(v.n) = w.s
    \/ v.k = "str" /\ w.k = "date" /\ v.s = isoDay(w.n)

\* the value the claim gives to the expression of the flag
ByKind(v, w) ==
    IF TheExpression.operator = "!=" THEN BoolV(~SameByKind(v, w))
    ELSE BoolV(SameByKind(v, w))

\* C16: the equality of ==, =, != and 'in' holds only between two values of
\* the same kind that are structurally equal, or between a date and the
\* string of its YYYY-MM-DD form; every other pairing, a list with an object
\* included, is unequal.  Stated for operands that are not invalid dates.
C16_EqualByKindOnly ==
    ( /\ result.called
      /\ \/ OperatorIs({"==", "=", "!="})
         \/ TheExpression = InListOfY
      /\ Bound("x") /\ Bound("y")
      /\ DateV(FALSE, 0) \notin {result.ctx.x, result.ctx.y} )
    => /\ result.ok
       /\ result.value = ByKind(result.ctx.x, result.ctx.y)

\* what 'and' and 'or' give on two truth values
Connective(op, a, b) == IF op = "and" THEN a /\ b ELSE a \/ b

UndefinedIdentifier(name) ==
    [name |-> "InterpreterError", msg |-> <<"Undefined identifier: ", name>>]

\* C17: 'and' and 'or' evaluate the left operand, then the right one, then
\* apply the connective: the error of an operand is thrown whatever the
\* other operand is, the left operand's error first.
C17_BothOperandsEvaluated ==
    (result.called /\ OperatorIs({"and", "or"})) =>
        IF ~Bound("x")
        THEN ~result.ok /\ result.err = UndefinedIdentifier("x")
        ELSE IF ~Bound("y")
        THEN ~result.ok /\ result.err = UndefinedIdentifier("y")
        ELSE /\ result.ok
             /\ result.value =
                  BoolV(Connective(TheExpression.operator,
                                   isTruthy(result.ctx.x),
                                   isTruthy(result.ctx.y)))

\* false and <error>, or true or <error>: the left operand alone would
\* decide, and the error of the right one is thrown
C17_Witness ==
    /\ result.called /\ OperatorIs({"and", "or"})
    /\ Bound("x") /\ ~Bound("y")
    /\ isTruthy(result.ctx.x) = (TheExpression.operator = "or")
    /\ ~result.ok

-----------------------------------------------------------------------------
(* Evaluator (src/src/evaluator.ts).  The source text of a call is input:  *)
(* a Scanner and a Parser are made of it unless the cache holds its        *)
(* Program.                                                                *)

\* Evaluator.isTruthy
Evaluator_isTruthy(value) ==
    CASE value.k = "bool" -> value.b
      [] value.k = "num" -> value.n # 0 \/ value.s # <<>>
      [] value.k = "str" -> Len(value.s) > 0
      [] value.k = "list" -> Len(value.l) > 0
      [] value.k = "date" -> value.b
      [] value.k = "object" -> Len(value.l) > 0
      [] OTHER -> TRUE

\* what scanTokens comes to: its tokens, the message of the error thrown,
\* or a loop without end
Tokens(toks) == [ok |-> TRUE, tokens |-> toks, err |-> "", ends |-> TRUE]
LexicalError(message) ==
    [ok |-> FALSE, tokens |-> <<>>, err |-> message, ends |-> TRUE]
NoEnd == [ok |-> FALSE, tokens |-> <<>>, err |-> "", ends |-> FALSE]

RECURSIVE scanLoop(_, _)
RECURSIVE scanTurn(_, _, _)

\* the while loop of Scanner.scanTokens and the EOF token, from the cursor
\* sc on
scanLoop(sc, toks) ==
    IF isAtEnd(sc)
    THEN Tokens(Append(toks, [type |-> "EOF", value |-> <<>>,
                              line |-> sc.line, column |-> sc.column,
                              start |-> sc.position, end |-> sc.position]))
    ELSE scanTurn(sc, toks, scanToken(sc))

\* the loop after the call r of scanToken at sc; a call that leaves the
\* cursor where it was is repeated for ever
scanTurn(sc, toks, r) ==
    IF r.err # "" THEN LexicalError(r.err)
    ELSE IF r.sc = sc THEN NoEnd
    ELSE scanLoop(r.sc, toks \o r.toks)

\* new Scanner(input).scanTokens()
scanTokens == scanLoop(Cursor(0, 1, 1), <<>>)

\* a Program, or the error thrown on the way to it
Ast(program) == [ok |-> TRUE, program |-> program, err |-> NoErr]
NoAst(name, message) ==
    [ok |-> FALSE, program |-> NoNode,
     err |-> [name |-> name, msg |-> <<message>>]]

\* new Parser(tokens).parse()
parserRun(p) ==
    IF p.ok THEN Ast(p.program) ELSE NoAst(p.err.name, p.err.message)

\* the Scanner and the Parser of Evaluator.parseSource, run on input
scanAndParse ==
    IF ~scanTokens.ok THEN NoAst("Error", scanTokens.err)
    ELSE parserRun(parse(scanTokens.tokens))

\* whether parseSource finds the Program of source in the cache
cacheHit(source) == options.cache /\ source \in DOMAIN astCache

\* parseSource with a cache that is not keyed by the source: the Program
\* of a text parsed before is returned for every text
parseSource_anyEntry(source) ==
    IF options.cache /\ DOMAIN astCache # {}
    THEN Ast(astCache[CHOOSE t \in DOMAIN astCache : TRUE])
    ELSE scanAndParse

\* Evaluator.parseSource: what it returns or throws; source is the text
\* that input holds
parseSource(source) ==
    IF cacheHit(source) THEN Ast(astCache[source]) ELSE scanAndParse

\* a cache that keeps an empty Program for a text that failed to scan or
\* parse
cacheAfter_failureKept(source, ast) ==
    IF options.cache /\ ~cacheHit(source)
    THEN [t \in DOMAIN astCache \cup {source} |->
             IF t # source THEN astCache[t]
             ELSE IF ast.ok THEN ast.program
             ELSE [type |-> "Program", features |-> <<>>,
                   position |-> NoPosition]]
    ELSE astCache

\* Evaluator.parseSource: the cache it leaves
cacheAfter(source, ast) ==
    IF options.cache /\ ~cacheHit(source) /\ ast.ok
    THEN [t \in DOMAIN astCache \cup {source} |->
             IF t = source THEN ast.program ELSE astCache[t]]
    ELSE astCache

\* ast.features.find(f => f.name === featureName): the index of the flag,
\* 0 when there is none
RECURSIVE find(_, _, _)
\* a search that returns the last flag of the name
find_last(features, featureName, i) ==
    IF i > Len(features) THEN 0
    ELSE IF find(features, featureName, i + 1) # 0
    THEN find(features, featureName, i + 1)
    ELSE IF features[i].name = featureName THEN i
    ELSE 0
find(features, featureName, i) ==
    IF i > Len(features) THEN 0
    ELSE IF features[i].name = featureName THEN i
    ELSE find(features, featureName, i + 1)

NotFound(featureName) ==
    Throw("Error", <<"Feature flag '", featureName, "' not found">>)

\* interpretFeatureFlag(feature).value, or the error thrown
valueOf(r) ==
    IF r.ok THEN Ok(r.value)
    ELSE [ok |-> FALSE, v |-> BoolV(FALSE), err |-> r.err]

\* the try block of Evaluator.evaluateFeature after setContext; ast is what
\* parseSource gave, held the context the interpreter holds
tryFeature(ast, featureName, held) ==
    IF ~ast.ok THEN [ok |-> FALSE, v |-> BoolV(FALSE), err |-> ast.err]
    ELSE IF find(ast.program.features, featureName, 1) = 0
    THEN IF options.throwOnError THEN NotFound(featureName)
         ELSE Ok(options.defaultValue)
    ELSE valueOf(interpretFeatureFlag(
             ast.program.features[find(ast.program.features, featureName, 1)],
             held))

\* a catch block that throws every error again, whatever throwOnError is
catchFeature_rethrown(r) == r

\* the catch block of Evaluator.evaluateFeature
catchFeature(r) ==
    IF r.ok \/ options.throwOnError THEN r ELSE Ok(options.defaultValue)

\* Evaluator.evaluateFeature: the value returned or the error thrown;
\* ctx is the context of the interpreter, which setContext has set
evaluateFeature(source, featureName, ctx) ==
    catchFeature(tryFeature(parseSource(source), featureName, ctx))

\* Interpreter.interpretProgram: features.map(interpretFeatureFlag), from
\* the i-th flag on
RECURSIVE interpretProgram(_, _, _)
\* a map that leaves out the flag whose evaluation fails
programTurn_failureSkipped(r, rest) ==
    IF ~r.ok THEN rest
    ELSE IF ~rest.ok THEN rest
    ELSE [ok |-> TRUE,
          results |-> <<[name |-> r.name, value |-> r.value,
                         matched |-> r.matched]>> \o rest.results,
          err |-> NoErr]
programTurn(r, rest) ==
    IF ~r.ok THEN [ok |-> FALSE, results |-> <<>>, err |-> r.err]
    ELSE IF ~rest.ok THEN rest
    ELSE [ok |-> TRUE,
          results |-> <<[name |-> r.name, value |-> r.value,
                         matched |-> r.matched]>> \o rest.results,
          err |-> NoErr]
interpretProgram(features, i, ctx) ==
    IF i > Len(features) THEN [ok |-> TRUE, results |-> <<>>, err |-> NoErr]
    ELSE programTurn(interpretFeatureFlag(features[i], ctx),
                     interpretProgram(features, i + 1, ctx))

\* the try block of Evaluator.evaluate after setContext
tryProgram(ast, held) ==
    IF ~ast.ok THEN [ok |-> FALSE, results |-> <<>>, err |-> ast.err]
    ELSE interpretProgram(ast.program.features, 1, held)

\* the catch block of Evaluator.evaluate
catchProgram(r) ==
    IF r.ok \/ options.throwOnError THEN r
    ELSE [ok |-> TRUE, results |-> <<>>, err |-> NoErr]

\* Evaluator.evaluate: the results returned or the error thrown
evaluate(source, ctx) == catchProgram(tryProgram(parseSource(source), ctx))

\* the default value for every name asked for
RECURSIVE allDefault(_, _)
allDefault(featureNames, results) ==
    IF featureNames = <<>> THEN results
    ELSE allDefault(Tail(featureNames),
                    putProperty(results, Head(featureNames),
                                options.defaultValue))

\* the for loop of Evaluator.evaluateFeatures, from the i-th name on;
\* results is the Map filled so far
RECURSIVE featuresLoop(_, _, _, _, _)
featureTurn(program, featureNames, i, results, held, r) ==
    IF r.ok
    THEN featuresLoop(program, featureNames, i + 1,
                      putProperty(results, featureNames[i], r.v), held)
    ELSE [ok |-> FALSE, results |-> <<>>, err |-> r.err]
\* the loop without the try block around interpretFeatureFlag: the error
\* of one flag reaches the outer catch block, which sets the default for
\* every name
featuresLoop_outerCatch(program, featureNames, i, results, held) ==
    IF i > Len(featureNames)
    THEN [ok |-> TRUE, results |-> results, err |-> NoErr]
    ELSE IF /\ ~options.throwOnError
            /\ ~tryFeature(Ast(program), featureNames[i], held).ok
    THEN [ok |-> TRUE, results |-> allDefault(featureNames, results),
          err |-> NoErr]
    ELSE featureTurn(program, featureNames, i, results, held,
                     catchFeature(tryFeature(Ast(program), featureNames[i],
                                             held)))
featuresLoop(program, featureNames, i, results, held) ==
    IF i > Len(featureNames)
    THEN [ok |-> TRUE, results |-> results, err |-> NoErr]
    ELSE featureTurn(program, featureNames, i, results, held,
                     catchFeature(tryFeature(Ast(program), featureNames[i],
                                             held)))

\* Evaluator.evaluateFeatures: the Map returned or the error thrown
featuresOf(ast, featureNames, held) ==
    IF ast.ok
    THEN featuresLoop(ast.program, featureNames, 1, <<>>, held)
    ELSE IF options.throwOnError
    THEN [ok |-> FALSE, results |-> <<>>, err |-> ast.err]
    ELSE [ok |-> TRUE, results |-> allDefault(featureNames, <<>>),
          err |-> NoErr]
evaluateFeatures(source, featureNames, ctx) ==
    featuresOf(parseSource(source), featureNames, ctx)

\* the name and the type of the i-th flag, as getFeatureInfo lists them
infoOf(features, i) ==
    [name |-> features[i].name,
     type |-> IF features[i].body.type = "SimpleFeatureFlag"
              THEN "simple" ELSE "complex"]

\* Evaluator.getFeatureInfo after parseSource: the list returned or the
\* error thrown
featureInfo(ast) ==
    IF ast.ok
    THEN [ok |-> TRUE,
          results |-> [i \in 1..Len(ast.program.features) |->
                          infoOf(ast.program.features, i)],
          err |-> NoErr]
    ELSE IF options.throwOnError
    THEN [ok |-> FALSE, results |-> <<>>, err |-> ast.err]
    ELSE [ok |-> TRUE, results |-> <<>>, err |-> NoErr]
getFeatureInfo(source) == featureInfo(parseSource(source))

-----------------------------------------------------------------------------
(* The Evaluator as a state machine: one Evaluator, made with its options, *)
(* and the calls of its methods.                                           *)

FlagA == <<"F", "F", "-", "a">>
FlagB == <<"F", "F", "-", "b">>
ArrowText == <<" ", "-", ">", " ">>

\* FF-a -> x
\* FF-b { x -> true false }
SourceFlags ==
    Flatten(<<FlagA, ArrowText, <<"x", "\n">>, FlagB, <<" ", "{", " ", "x">>,
              ArrowText, TrueText, <<" ">>, FalseText, <<" ", "}">> >>)
\* FF-a -> not x
SourceNot == Flatten(<<FlagA, ArrowText, <<"n", "o", "t", " ", "x">> >>)
\* FF-a -> x -: the '-' is scanned for ever
SourceNoEnd == Flatten(<<FlagA, ArrowText, <<"x", " ", "-">> >>)
\* FF-a -> : there is no value
SourceBroken == Flatten(<<FlagA, ArrowText>>)

EvalSources == {SourceFlags, SourceNot, SourceNoEnd, SourceBroken}
EvalNames == {"FF-a", "FF-b"}
NameLists == {<<"FF-b", "FF-a">>}
\* the context left out, and x bound to a truthy and to a falsy value
FewContexts == {<<>>, [x |-> StrV(<<"m", "s">>)], [x |-> NumV(0)]}
ManyContexts == {[x |-> v] : v \in OperandValues}

\* new Evaluator(options)
InitEval ==
    /\ options \in {[cache |-> c, throwOnError |-> t,
                     defaultValue |-> BoolV(FALSE)] :
                       c \in BOOLEAN, t \in BOOLEAN}
    /\ astCache = NoEntries
    /\ clock = 0
    /\ answer = NoAnswer
    /\ installed = NoneInstalled
    /\ InterpIdle
    /\ ScanIdle
    /\ ParseIdle

\* a method is called with a source text: the call is under way, and its
\* first statement, this.interpreter.setContext(context), is done.  The
\* context <<>> is the {} the parameter defaults to when the argument is
\* left out.
Called(method, source, featureNames, ctx) ==
    /\ ~answer.pending
    /\ input' = source
    /\ context' = ctx
    /\ installed' = IF installed.held /\ ctx = <<>>
                    THEN [installed EXCEPT !.used = TRUE]
                    ELSE NoneInstalled
    /\ answer' = [NoAnswer EXCEPT !.call = method, !.pending = TRUE,
                                  !.source = source, !.names = featureNames,
                                  !.ctx = ctx]
    /\ UNCHANGED <<options, astCache, clock, feature, result>>
    /\ UNCHANGED <<position, line, column, tokens, pc, scanError>>
    /\ UNCHANGED parseVars

\* Evaluator.evaluate(source, ctx) is called
Evaluate ==
    \E source \in EvalSources, ctx \in FewContexts :
        Called("evaluate", source, <<>>, ctx)

\* Evaluator.evaluateFeature(source, featureName, ctx) is called
EvaluateFeature ==
    \E source \in EvalSources, featureName \in EvalNames,
       ctx \in FewContexts \cup ManyContexts :
        /\ ctx \in FewContexts \/ (source = SourceFlags /\ featureName = "FF-b")
        /\ Called("evaluateFeature", source, <<featureName>>, ctx)

\* Evaluator.isEnabled(source, featureName, ctx) is called
IsEnabled ==
    \E ctx \in ManyContexts : Called("isEnabled", SourceFlags, <<"FF-a">>, ctx)

\* Evaluator.evaluateFeatures(source, featureNames, ctx) is called
EvaluateFeatures ==
    \E source \in EvalSources, featureNames \in NameLists,
       ctx \in FewContexts :
        Called("evaluateFeatures", source, featureNames, ctx)

\* what the call under way returns or throws: ok, value, results, enabled
\* and err
Outcome(r, value, results, enabled) ==
    [ok |-> r.ok, value |-> value, results |-> results, enabled |-> enabled,
     err |-> r.err]
evaluateOutcome(r) == Outcome(r, BoolV(FALSE), r.results, FALSE)
evaluateFeatureOutcome(r) == Outcome(r, r.v, <<>>, FALSE)
isEnabledOutcome(r) == Outcome(r, r.v, <<>>, r.ok /\ Evaluator_isTruthy(r.v))
outcomeOf(call) ==
    CASE call.call = "evaluate" -> evaluateOutcome(evaluate(input, context))
      [] call.call = "getFeatureInfo" -> evaluateOutcome(getFeatureInfo(input))
      [] call.call = "evaluateFeatures" ->
            evaluateOutcome(evaluateFeatures(input, call.names, context))
      [] call.call = "isEnabled" ->
            isEnabledOutcome(evaluateFeature(input, call.names[1], context))
      [] OTHER ->
            evaluateFeatureOutcome(
                evaluateFeature(input, call.names[1], context))

\* the answer of the call, o being its outcome
answered(call, o) ==
    [call EXCEPT !.pending = FALSE, !.hit = cacheHit(input), !.ok = o.ok,
                 !.value = o.value, !.results = o.results,
                 !.enabled = o.enabled, !.err = o.err, !.context = context]

\* the call under way comes back: its Program is in the cache, or the scan
\* of the text ends
Return ==
    /\ answer.pending
    /\ cacheHit(input) \/ scanTokens.ends
    /\ astCache' = cacheAfter(input, parseSource(input))
    /\ answer' = answered(answer, outcomeOf(answer))
    /\ UNCHANGED <<options, clock, installed>>
    /\ UNCHANGED interpVars
    /\ UNCHANGED scanVars
    /\ UNCHANGED parseVars

\* Evaluator.setContext(ctx)
EvaluatorSetContext ==
    \E ctx \in FewContexts :
        /\ ~answer.pending
        /\ context' = ctx
        /\ installed' = [held |-> TRUE, used |-> FALSE, ctx |-> ctx]
        /\ UNCHANGED <<feature, result>>
        /\ UNCHANGED scanVars
        /\ UNCHANGED parseVars
        /\ UNCHANGED <<options, astCache, clock, answer>>

\* Evaluator.clearCache()
ClearCache ==
    /\ ~answer.pending
    /\ astCache' = NoEntries
    /\ UNCHANGED <<options, clock, answer, installed>>
    /\ UNCHANGED interpVars
    /\ UNCHANGED scanVars
    /\ UNCHANGED parseVars

NextEval ==
    \/ Evaluate
    \/ EvaluateFeature
    \/ IsEnabled
    \/ EvaluateFeatures
    \/ Return
    \/ EvaluatorSetContext
    \/ ClearCache

SpecEval == InitEval /\ [][NextEval]_vars

-----------------------------------------------------------------------------
(* Sessions of one Evaluator on texts that declare a flag twice, write a   *)
(* keyword in capitals, hold a json object or fail to scan or parse.       *)

\* FF-b -> true
\* FF-a -> x
\* FF-a -> false
SourceTwice ==
    Flatten(<<FlagB, ArrowText, TrueText, <<"\n">>, FlagA, ArrowText,
              <<"x", "\n">>, FlagA, ArrowText, FalseText>>)
\* FF-a -> NOT x
SourceCapitals == Flatten(<<FlagA, ArrowText, <<"N", "O", "T", " ", "x">> >>)
\* FF-a -> json({"k": 1})
SourceJson ==
    Flatten(<<FlagA, ArrowText, <<"j", "s", "o", "n", "(", "{", "\"", "k",
                                  "\"", ":", " ", "1", "}", ")">> >>)
\* FF-a -> @: the scanner throws on '@'
SourceUnscanned == Flatten(<<FlagA, ArrowText, <<"@">> >>)

SessionSources ==
    {SourceTwice, SourceCapitals, SourceJson, SourceBroken, SourceUnscanned}
\* a list of names with one that no text declares
SessionLists == {<<"FF-b", "FF-c", "FF-a">>}
\* the context left out, and x bound to a text
SessionContexts == {<<>>, [x |-> StrV(<<"m", "s">>)]}
\* the defaultValue of the options: false when left out, or the text 'd'
DefaultValues == {BoolV(FALSE), StrV(<<"d">>)}

\* new Evaluator(options)
InitSession ==
    /\ options \in {[cache |-> c, throwOnError |-> t, defaultValue |-> d] :
                       c \in BOOLEAN, t \in BOOLEAN, d \in DefaultValues}
    /\ astCache = NoEntries
    /\ clock = 0
    /\ answer = NoAnswer
    /\ installed = NoneInstalled
    /\ InterpIdle
    /\ ScanIdle
    /\ ParseIdle

\* Evaluator.evaluate(source, ctx) is called
SessionEvaluate ==
    \E source \in SessionSources, ctx \in SessionContexts :
        Called("evaluate", source, <<>>, ctx)

\* Evaluator.evaluateFeature(source, featureName, ctx) is called
SessionEvaluateFeature ==
    \E source \in SessionSources, featureName \in EvalNames,
       ctx \in SessionContexts :
        Called("evaluateFeature", source, <<featureName>>, ctx)

\* Evaluator.evaluateFeatures(source, featureNames, ctx) is called
SessionEvaluateFeatures ==
    \E source \in SessionSources, featureNames \in SessionLists,
       ctx \in SessionContexts :
        Called("evaluateFeatures", source, featureNames, ctx)

\* Evaluator.getFeatureInfo(source) is called: the context of the
\* interpreter is left as it is
GetFeatureInfo ==
    \E source \in SessionSources :
        /\ ~answer.pending
        /\ input' = source
        /\ answer' = [NoAnswer EXCEPT !.call = "getFeatureInfo",
                                      !.pending = TRUE, !.source = source,
                                      !.ctx = context]
        /\ UNCHANGED <<options, astCache, clock, installed>>
        /\ UNCHANGED interpVars
        /\ UNCHANGED <<position, line, column, tokens, pc, scanError>>
        /\ UNCHANGED parseVars

NextSession ==
    \/ SessionEvaluate
    \/ SessionEvaluateFeature
    \/ SessionEvaluateFeatures
    \/ GetFeatureInfo
    \/ Return
    \/ ClearCache

SpecSession == InitSession /\ [][NextSession]_vars

-----------------------------------------------------------------------------
(* The sessions with a caller that writes to the object a call returned.   *)

\* the flag of the cached Program that the last call evaluated, 0 when
\* there is none
Evaluated ==
    IF input \in DOMAIN astCache /\ answer.names # <<>>
    THEN find(astCache[input].features, answer.names[1], 1)
    ELSE 0
\* evaluateExpression returns the value of a JsonExpression itself, not a
\* copy: what the caller holds is the object of the tree
HoldsTreeObject ==
    /\ answer.call = "evaluateFeature" /\ ~answer.pending /\ answer.ok
    /\ Evaluated # 0
    /\ astCache[input].features[Evaluated].body.type = "SimpleFeatureFlag"
    /\ astCache[input].features[Evaluated].body.value.type = "JsonExpression"
\* the object after the caller's result.k = 2
WrittenTo(object) == ObjV(putProperty(object.l, <<"k">>, NumV(2)))

\* the caller of evaluateFeature sets the property k of the object it was
\* returned; the Program of the cache holds the same object
CallerSetsProperty ==
    /\ HoldsTreeObject
    /\ astCache[input].features[Evaluated].body.value.value
           # WrittenTo(astCache[input].features[Evaluated].body.value.value)
    /\ astCache' =
           [astCache EXCEPT ![input].features[Evaluated].body.value.value
                                = WrittenTo(@)]
    /\ UNCHANGED <<options, clock, answer, installed>>
    /\ UNCHANGED interpVars
    /\ UNCHANGED scanVars
    /\ UNCHANGED parseVars

NextCaller == NextSession \/ CallerSetsProperty

SpecCaller == InitSession /\ [][NextCaller]_vars

-----------------------------------------------------------------------------
(* Claims about the Evaluator, checked under SpecEval.                     *)

\* a call has come back
Answered(method) == answer.call = method /\ ~answer.pending
\* the value the context of the call binds x to
TheOperand == answer.ctx.x

\* truthiness as the claim has it
TruthOf(v) ==
    CASE v.k = "bool" -> v.b
      [] v.k = "num" -> v # NumV(0)
      [] v.k = "str" -> v.s # <<>>
      [] v.k = "list" -> v.l # <<>>
      [] v.k = "date" -> v.b
      [] v.k = "object" -> Len(v.l) >= 1

\* C18: the interpreter and Evaluator.isEnabled take the same values for
\* true: a boolean that is true, a number that is not zero, a string and a
\* list that are not empty, a valid date, an object with a key.  The rule
\* x -> true of FF-b and the not of 'FF-a -> not x' show the truthiness of
\* the interpreter, isEnabled on 'FF-a -> x' that of the Evaluator.
C18_SameTruthiness ==
    /\ \A v \in OperandValues :
           isTruthy(v) = TruthOf(v) /\ Evaluator_isTruthy(v) = TruthOf(v)
    /\ ("x" \in DOMAIN answer.ctx /\ ~answer.pending) =>
           /\ Answered("isEnabled") =>
                  answer.ok /\ answer.enabled = TruthOf(TheOperand)
           /\ ( /\ Answered("evaluateFeature")
                /\ answer.source = SourceFlags
                /\ answer.names = <<"FF-b">> ) =>
                  answer.ok /\ answer.value = BoolV(TruthOf(TheOperand))
           /\ ( /\ Answered("evaluateFeature")
                /\ answer.source = SourceNot
                /\ answer.names = <<"FF-a">> ) =>
                  answer.ok /\ answer.value = BoolV(~TruthOf(TheOperand))

\* isEnabled has answered for a flag whose value is an object without keys
C18_Witness ==
    /\ Answered("isEnabled")
    /\ "x" \in DOMAIN answer.ctx
    /\ TheOperand = ObjV(<<>>)
    /\ answer.ok /\ ~answer.enabled

\* what the call gives when the text is scanned and parsed anew and the
\* flags are interpreted in the context handed to the call
Anew(call) ==
    CASE call.call = "evaluate" ->
            evaluateOutcome(catchProgram(tryProgram(scanAndParse, call.ctx)))
      [] call.call = "getFeatureInfo" ->
            evaluateOutcome(featureInfo(scanAndParse))
      [] call.call = "evaluateFeatures" ->
            evaluateOutcome(featuresOf(scanAndParse, call.names, call.ctx))
      [] call.call = "isEnabled" ->
            isEnabledOutcome(
                catchFeature(tryFeature(scanAndParse, call.names[1], call.ctx)))
      [] OTHER ->
            evaluateFeatureOutcome(
                catchFeature(tryFeature(scanAndParse, call.names[1], call.ctx)))

\* C20: what a call of evaluate, evaluateFeature, isEnabled or
\* evaluateFeatures answers depends on the source text and the context
\* handed to it only, whatever calls were made before on the same
\* Evaluator: it is what scanning, parsing and interpreting anew give.  The
\* call leaves the context as it was handed in, and the Program kept for a
\* text is the one a new parse gives.
C20_TreeAndContextOnly ==
    /\ (answer.call # "none" /\ ~answer.pending) =>
           /\ answer.source = input
           /\ Outcome(answer, answer.value, answer.results, answer.enabled)
                  = Anew(answer)
           /\ answer.context = answer.ctx
    /\ input \in DOMAIN astCache => Ast(astCache[input]) = scanAndParse

\* a flag was evaluated on the Program of the cache, in a context that
\* binds x, after a call on another text
C20_Witness ==
    /\ Answered("evaluateFeature")
    /\ answer.hit /\ answer.ok
    /\ "x" \in DOMAIN answer.ctx /\ answer.value = TheOperand
    /\ \E t \in DOMAIN astCache : t # input

\* C21: a context installed with Evaluator.setContext(c) is kept across
\* evaluations: every later evaluateFeature(source, name) call made without
\* a context argument is evaluated against c, and getContext() keeps
\* returning a context equal to c, until setContext is called again.
C21_InstalledContextKept ==
    installed.held =>
        /\ context = installed.ctx
        /\ (installed.used /\ Answered("evaluateFeature")) =>
               Outcome(answer, answer.value, answer.results, answer.enabled)
                   = Anew([answer EXCEPT !.ctx = installed.ctx])

\* the flag the call names, 0 when the text has none of that name
Named == find(scanAndParse.program.features, answer.names[1], 1)
\* the text of the call fails to scan or parse
Unparsed == ~scanAndParse.ok
\* the text has no flag of the name asked for
Absent == scanAndParse.ok /\ Named = 0
\* the evaluation of the flag asked for raises an error
Raises ==
    /\ scanAndParse.ok /\ Named # 0
    /\ ~interpretFeatureFlag(scanAndParse.program.features[Named],
                             answer.ctx).ok

\* C22: with throwOnError = false evaluateFeature never throws: it returns
\* the configured defaultValue when the flag name is absent, when the
\* source fails to scan or parse, or when the evaluation of the flag raises
\* an error; with throwOnError = true each of these cases throws, 'Feature
\* flag ... not found' for an absent flag.
C22_DefaultOrThrow ==
    Answered("evaluateFeature") =>
        /\ ~options.throwOnError =>
               /\ answer.ok
               /\ (Unparsed \/ Absent \/ Raises) =>
                      answer.value = options.defaultValue
        /\ options.throwOnError =>
               /\ (Unparsed \/ Absent \/ Raises) = ~answer.ok
               /\ Absent => answer.err = NotFound(answer.names[1]).err
               /\ Unparsed => answer.err = scanAndParse.err

\* the default 'd' was returned for a flag whose evaluation raised an
\* error, by an Evaluator that does not throw
C22_Witness ==
    /\ Answered("evaluateFeature")
    /\ ~options.throwOnError /\ options.defaultValue = StrV(<<"d">>)
    /\ Raises
    /\ answer.ok /\ answer.value = StrV(<<"d">>)

\* the texts of the sessions that fail to scan or parse
FailingSources == {SourceBroken, SourceUnscanned}

\* C23: caching is transparent: whatever evaluate, evaluateFeature,
\* evaluateFeatures, getFeatureInfo and clearCache calls were made before,
\* a call answers what an Evaluator without a cache answers, which scans
\* and parses the text anew; a text whose scan or parse failed is never
\* entered in the cache, and without the option the cache stays empty.
C23_CachingTransparent ==
    /\ (answer.call # "none" /\ ~answer.pending) =>
           Outcome(answer, answer.value, answer.results, answer.enabled)
               = Anew(answer)
    /\ DOMAIN astCache \cap FailingSources = {}
    /\ input \in DOMAIN astCache => scanAndParse.ok
    /\ ~options.cache => astCache = NoEntries

\* getFeatureInfo has answered from the cache, which holds the Program of
\* the text with three declarations and no other
C23_Witness ==
    /\ Answered("getFeatureInfo")
    /\ answer.hit /\ Len(answer.results) = 3
    /\ DOMAIN astCache = {SourceTwice}

\* the entries of the Map returned that stand under a name
EntriesOf(name) ==
    {i \in 1..Len(answer.results) : answer.results[i].key = name}
\* the flag of a name on its own: Named for any name of the list
FirstOf(name) == find(scanAndParse.program.features, name, 1)
\* the value of a flag evaluated on its own, the default when the text
\* has no such flag or its evaluation fails
OnItsOwn(name) ==
    IF ~scanAndParse.ok THEN options.defaultValue
    ELSE IF FirstOf(name) = 0 THEN options.defaultValue
    ELSE IF interpretFeatureFlag(scanAndParse.program.features[FirstOf(name)],
                                 answer.ctx).ok
    THEN interpretFeatureFlag(scanAndParse.program.features[FirstOf(name)],
                              answer.ctx).value
    ELSE options.defaultValue

\* C24: with throwOnError = false evaluateFeatures returns a Map with
\* exactly one entry for every name asked for: the value of the flag when
\* it exists and evaluates, the defaultValue when it is absent or its
\* evaluation fails, whatever becomes of the other names.
C24_OneEntryPerName ==
    (Answered("evaluateFeatures") /\ ~options.throwOnError) =>
        /\ answer.ok
        /\ \A i \in 1..Len(answer.results) :
               \E n \in 1..Len(answer.names) :
                   answer.results[i].key = answer.names[n]
        /\ \A n \in 1..Len(answer.names) :
               /\ Cardinality(EntriesOf(answer.names[n])) = 1
               /\ \A i \in EntriesOf(answer.names[n]) :
                      answer.results[i].value = OnItsOwn(answer.names[n])

\* the Map holds the value of FF-b beside the default 'd' for FF-c, which
\* is absent, and for FF-a, whose evaluation failed
C24_Witness ==
    /\ Answered("evaluateFeatures") /\ ~options.throwOnError
    /\ answer.source = SourceTwice /\ answer.ctx = <<>>
    /\ answer.results =
           <<[key |-> "FF-b", value |-> BoolV(TRUE)],
             [key |-> "FF-c", value |-> StrV(<<"d">>)],
             [key |-> "FF-a", value |-> StrV(<<"d">>)]>>

\* the operators evaluateBinaryExpression and evaluateUnaryExpression know
KnownOperators ==
    {"==", "!=", "=", ">", "<", ">=", "<=", "and", "or", "in", "not"}

\* C28: every BinaryExpression and UnaryExpression the parser builds from
\* the scanner's tokens carries an operator of the closed set the
\* interpreter implements, whatever the letter case of the keyword in the
\* text, so evaluating a parsed tree never raises 'Unknown binary operator'
\* or 'Unknown unary operator'.
C28_OperatorsKnown ==
    /\ scanAndParse.ok =>
           \A node \in TreeNodes(scanAndParse.program) :
               node.type \in {"BinaryExpression", "UnaryExpression"} =>
                   node.operator \in KnownOperators
    /\ (answer.call # "none" /\ ~answer.pending /\ ~answer.ok) =>
           answer.err.msg[1] \notin {"Unknown binary operator: ",
                                     "Unknown unary operator: "}

\* the flag names the text declares, in the order of the text: in the
\* texts of the sessions a flag name stands nowhere but at the head of a
\* declaration
IsFlagName(t) == t.type = "FEATURE_FLAG_NAME"
FlagNameTokens == SelectSeq(scanTokens.tokens, IsFlagName)
DeclaredNames ==
    [i \in 1..Len(FlagNameTokens) |-> text(FlagNameTokens[i].value)]
\* the flags of the parsed text
TheFeatures == scanAndParse.program.features
\* the first declaration of a name
DeclaredAt(name) == {i \in 1..Len(TheFeatures) : TheFeatures[i].name = name}
FirstDeclared(name) ==
    CHOOSE i \in DeclaredAt(name) : \A j \in DeclaredAt(name) : i <= j
\* the value of the first declaration of a name in the context of the call
FirstValue(name) ==
    interpretFeatureFlag(TheFeatures[FirstDeclared(name)], answer.ctx)

\* C29: when a text declares the same flag name more than once, parse
\* keeps every declaration in the order of the text and interpretProgram,
\* which evaluate returns, gives one result per declaration in that order,
\* while evaluateFeature and evaluateFeatures evaluate the first
\* declaration of the name.
C29_EveryDeclarationKept ==
    /\ scanAndParse.ok =>
           [i \in 1..Len(TheFeatures) |-> TheFeatures[i].name] = DeclaredNames
    /\ (Answered("evaluate") /\ answer.ok /\ answer.results # <<>>) =>
           /\ [i \in 1..Len(answer.results) |-> answer.results[i].name]
                  = DeclaredNames
           /\ \A i \in 1..Len(answer.results) :
                  answer.results[i].value =
                      interpretFeatureFlag(TheFeatures[i], answer.ctx).value
    /\ ( /\ Answered("evaluateFeature") /\ scanAndParse.ok
         /\ DeclaredAt(answer.names[1]) # {}
         /\ FirstValue(answer.names[1]).ok ) =>
           answer.ok /\ answer.value = FirstValue(answer.names[1]).value
    /\ (Answered("evaluateFeatures") /\ answer.ok /\ scanAndParse.ok) =>
           \A i \in 1..Len(answer.results) :
               ( /\ DeclaredAt(answer.results[i].key) # {}
                 /\ FirstValue(answer.results[i].key).ok ) =>
                   answer.results[i].value
                       = FirstValue(answer.results[i].key).value

\* evaluate has returned three results, two of them for the name FF-a,
\* the first being the value of x and the second false
C29_Witness ==
    /\ Answered("evaluate") /\ answer.ok
    /\ Len(answer.results) = 3
    /\ answer.results[2].name = "FF-a" /\ answer.results[3].name = "FF-a"
    /\ answer.results[2].value = StrV(<<"m", "s">>)
    /\ answer.results[3].value = BoolV(FALSE)

\* the scan, the parse or the evaluation of one flag of the text fails
AnyFails ==
    \/ ~scanAndParse.ok
    \/ \E i \in 1..Len(TheFeatures) :
           ~interpretFeatureFlag(TheFeatures[i], answer.ctx).ok
\* the result of the i-th declaration
ResultOf(i) ==
    [name |-> TheFeatures[i].name,
     value |-> interpretFeatureFlag(TheFeatures[i], answer.ctx).value,
     matched |-> interpretFeatureFlag(TheFeatures[i], answer.ctx).matched]

\* C30: evaluate with throwOnError = false is all or nothing: it returns
\* one result per declared flag, in the order of the declarations, or the
\* empty list when the scan, the parse or the evaluation of any one flag
\* fails; never results for some of the flags only.
C30_AllOrNothing ==
    (Answered("evaluate") /\ ~options.throwOnError) =>
        /\ answer.ok
        /\ answer.results =
               IF AnyFails THEN <<>>
               ELSE [i \in 1..Len(TheFeatures) |-> ResultOf(i)]

\* evaluate has returned the empty list for a text whose first flag
\* evaluates and whose second flag fails
C30_Witness ==
    /\ Answered("evaluate") /\ ~options.throwOnError
    /\ answer.source = SourceTwice
    /\ interpretFeatureFlag(TheFeatures[1], answer.ctx).ok
    /\ ~interpretFeatureFlag(TheFeatures[2], answer.ctx).ok
    /\ answer.ok /\ answer.results = <<>>

-----------------------------------------------------------------------------
(* Claims about the cached Program and its caller, checked under           *)
(* SpecCaller.                                                             *)

\* C26: a Program stored in the cache is never changed after it is built:
\* no sequence of Evaluator calls and no change a caller makes to a value
\* that evaluate or evaluateFeature returned alters the cached tree, which
\* stays what parsing the text gives, or the result of a later evaluation
\* of the same text and context.
C26_CachedTreeNeverChanged ==
    /\ input \in DOMAIN astCache => Ast(astCache[input]) = scanAndParse
    /\ (answer.call # "none" /\ ~answer.pending) =>
           Outcome(answer, answer.value, answer.results, answer.enabled)
               = Anew(answer)

=============================================================================
